---------------------------- MODULE Spec2Model ----------------------------
(* Model of the "Listen & Fix" repair-assistant pipeline:                  *)
(*   - the analyze request handler POST of                                 *)
(*     src/diy/app/api/gemini/listen-and-fix/route.ts,                     *)
(*   - the DocumentCrawlerService it drives                                *)
(*     (src/diy/components/ListenFixAssistant.tsx, lines 1000-1845),       *)
(*   - the ListenFixService.analyze pipeline of                            *)
(*     src/diy/lib/listen-fix-service.ts.                                  *)
(*                                                                         *)
(* Strings are modelled by their structure: a text is a sequence of        *)
(* paragraphs (separated by a blank line), a paragraph a sequence of word  *)
(* lengths (words separated by one blank).  A URL is a sequence of         *)
(* character codes.  Scores are fixed-point numbers in thousandths.        *)
EXTENDS Integers, Sequences, FiniteSets, TLC

(***************************************************************************)
(* State                                                                   *)
(***************************************************************************)
VARIABLES
    stage,             \* position of the POST handler
    equipment,         \* body.equipment of the request
    diagnosis,         \* the diagnosis object, once obtained
    diagResponse,      \* what the diagnosis call returned
    runs,              \* the ingestForEquipment invocations (1 first, 2 targeted)
    documentStore,     \* DocumentCrawlerService.documentStore
    crawlCache,        \* DocumentCrawlerService.crawlCache
    now,               \* Date.now()
    storeId,           \* the handler's current store id
    technicalContext,  \* the handler's technicalContext
    guide,             \* the guide under construction
    guideResponse,     \* what the guide-synthesis call returned
    retrieved,         \* the results of the handler's last queryDocuments call
    partResponses,     \* what the part lookups of ListenFixService returned
    response,          \* the response of the handler / the result of analyze
    lastCall,          \* the operation last called on its own, with its arguments
    lastResult,        \* what that call returned
    firstChunked,      \* the first chunkDocument call on its own and its result
    ragChunking,       \* RAGService.chunkDocument: its document and loop variables
    embedRequests,     \* the embedding requests issued so far: caller and task type
    crawls,            \* overlapping crawlUrl calls: their position and result
    calls              \* number of calls issued, per kind

vars ==
    << stage, equipment, diagnosis, diagResponse, runs, documentStore,
       crawlCache, now, storeId, technicalContext, retrieved, guide,
       guideResponse, partResponses, response, calls, lastCall, lastResult,
       firstChunked, ragChunking, embedRequests, crawls >>

(***************************************************************************)
(* Bounds of the model                                                     *)
(***************************************************************************)
\* number of distinct URLs the grounded search can return
MaxUrls == 2
\* largest number of required parts a generated guide lists
MaxParts == 2
\* number of milliseconds the clock advances while concurrent runs are observed
MaxTicks == 1
\* number of iterations of the RAGService.chunkDocument loop that are followed
MaxRagChunks == 4
\* number of crawlUrl calls that may overlap
MaxCrawlCalls == 3
\* longest list of required parts handed to findParts on its own
MaxPartsListed == 7

(***************************************************************************)
(* Program constants                                                       *)
(***************************************************************************)
MinChunksForStore == 5
MinContextChars == 500
ContextTopK == 10
PartsSearchLimit == 5
CrawlLimit == 10
EmbedBatchSize == 10
ChunkSize == 1000
ChunkOverlap == 200
MinLastChunk == 50
RawTextLimit == 15000
MinHtmlLength == 500
MinRawTextLength == 200
\* RAGService DEFAULT_CONFIG.minScore 0.5, in thousandths
MinScore == 500
MinCleanedLength == 100
RelevantUrlLimit == 15
RagChunkSize == 1000
RagChunkOverlap == 200

(***************************************************************************)
(* Generic helpers                                                         *)
(***************************************************************************)
RECURSIVE SumSeq(_)
SumSeq(s) ==
    IF s = <<>> THEN 0 ELSE Head(s) + SumSeq(Tail(s))

Min(a, b) == IF a < b THEN a ELSE b

\* Array.prototype.slice(from) with a negative start: the last n elements
LastN(s, n) ==
    IF Len(s) <= n THEN s ELSE SubSeq(s, Len(s) - n + 1, Len(s))

\* Array.prototype.slice(0, n)
FirstN(s, n) ==
    IF Len(s) <= n THEN s ELSE SubSeq(s, 1, n)

RECURSIVE Flatten(_)
Flatten(ss) ==
    IF ss = <<>> THEN <<>> ELSE Head(ss) \o Flatten(Tail(ss))

(***************************************************************************)
(* Text: length of a paragraph and of a text, as String.length            *)
(***************************************************************************)
ParaLen(p) ==
    IF p = <<>> THEN 0 ELSE SumSeq(p) + (Len(p) - 1)

TextLen(t) ==
    IF t = <<>> THEN 0
    ELSE SumSeq([i \in 1..Len(t) |-> ParaLen(t[i])]) + 2 * (Len(t) - 1)

\* currentChunk.split(/\s+/): the words of a text, in order
Words(t) == Flatten(t)

(***************************************************************************)
(* DocumentCrawlerService.hashString: 32-bit string hash                   *)
(***************************************************************************)
\* A 32-bit integer is kept as <<high, low>>, its two 16-bit halves in two's
\* complement, so that no intermediate value leaves the range of the checker.
\* ((hash << 5) - hash) + char, then hash & hash: 31 * hash + char, wrapped
HashStep(hash, char) ==
    LET low  == hash[2] * 31 + char
        high == hash[1] * 31 + (low \div 65536)
    IN  <<high % 65536, low % 65536>>

RECURSIVE HashFrom(_, _)
HashFrom(hash, str) ==
    IF str = <<>> THEN hash
    ELSE HashFrom(HashStep(hash, Head(str)), Tail(str))

\* Math.abs of a 32-bit integer kept in halves
Abs32(hash) ==
    IF hash[1] < 32768 THEN hash
    ELSE IF hash[2] = 0 THEN <<65536 - hash[1], 0>>
    ELSE <<65535 - hash[1], 65536 - hash[2]>>

\* Math.abs(hash).toString(36): the base-36 rendering is one-to-one on the
\* non-negative integers, so the hash string is represented by the integer
hashString(str) == Abs32(HashFrom(<<0, 0>>, str))

(***************************************************************************)
(* DocumentCrawlerService.chunkDocument                                    *)
(***************************************************************************)
\* one DocumentChunk of document doc holding text content at ordinal chunkIndex
NewChunk(doc, content, chunkIndex) ==
    [ id          |-> <<hashString(doc.url), chunkIndex>>,
      documentUrl |-> doc.url,
      content     |-> content,
      chunkIndex  |-> chunkIndex ]

\* the for-loop over the paragraphs: currentChunk, chunkIndex and chunks so far
RECURSIVE ChunkLoop(_, _, _, _, _)
ChunkLoop(doc, paragraphs, currentChunk, chunkIndex, chunks) ==
    IF paragraphs = <<>>
    THEN \* "Don't forget the last chunk"
         IF TextLen(currentChunk) > MinLastChunk
         THEN Append(chunks, NewChunk(doc, currentChunk, chunkIndex))
         ELSE chunks
    ELSE LET para == Head(paragraphs)
         IN  IF TextLen(currentChunk) + ParaLen(para) > ChunkSize
                /\ TextLen(currentChunk) > 0
             THEN LET overlapWords ==
                          LastN(Words(currentChunk), ChunkOverlap \div 5)
                  IN  ChunkLoop(doc, Tail(paragraphs),
                                <<overlapWords, para>>,
                                chunkIndex + 1,
                                Append(chunks,
                                       NewChunk(doc, currentChunk, chunkIndex)))
             ELSE ChunkLoop(doc, Tail(paragraphs),
                            Append(currentChunk, para),
                            chunkIndex, chunks)

\* variant of chunkDocument that numbers the chunks after the cached documents
chunkDocumentNumberedByCache(doc) ==
    ChunkLoop(doc, doc.content, <<>>, Cardinality(DOMAIN crawlCache) - 1, <<>>)

chunkDocument(doc) ==
    ChunkLoop(doc, doc.content, <<>>, 0, <<>>)

(***************************************************************************)
(* DocumentCrawlerService.cosineSimilarity, in thousandths                 *)
(***************************************************************************)
\* largest r in lo..hi with r * r <= n, by bisection
RECURSIVE SqrtBetween(_, _, _)
SqrtBetween(n, lo, hi) ==
    IF lo >= hi THEN lo
    ELSE LET mid == (lo + hi + 1) \div 2
         IN  IF mid * mid <= n THEN SqrtBetween(n, mid, hi)
             ELSE SqrtBetween(n, lo, mid - 1)

ISqrt(n) == SqrtBetween(n, 0, 46340)

Dot(a, b) == SumSeq([i \in 1..Len(a) |-> a[i] * b[i]])

\* a / b rounded to the nearest integer, for a >= 0 and b > 0
RoundDiv(a, b) == (2 * a + b) \div (2 * b)

\* Math.sqrt(n) in thousandths, rounded to the nearest thousandth
MathSqrt(n) ==
    LET r == ISqrt(1000000 * n)
    IN  IF 1000000 * n - r * r > r THEN r + 1 ELSE r

\* dotProduct / denominator in thousandths, rounded to the nearest thousandth
Quotient(dotProduct, denominator) ==
    IF dotProduct < 0
    THEN 0 - RoundDiv(1000000 * (0 - dotProduct), denominator)
    ELSE RoundDiv(1000000 * dotProduct, denominator)

\* variant of cosineSimilarity that scores a zero denominator as a full match
cosineSimilarityZeroAsMatch(a, b) ==
    IF Len(a) # Len(b) \/ Len(a) = 0 THEN 0
    ELSE LET denominator ==
                 RoundDiv(MathSqrt(Dot(a, a)) * MathSqrt(Dot(b, b)), 1000)
         IN  IF denominator = 0 THEN 1000
             ELSE Quotient(Dot(a, b), denominator)

\* Math.sqrt(normA) * Math.sqrt(normB) and dotProduct / denominator as the
\* code computes them, every operation rounding its result (here to the
\* nearest thousandth); 0 when the lengths differ, a is empty or the
\* denominator is zero
cosineSimilarity(a, b) ==
    IF Len(a) # Len(b) \/ Len(a) = 0 THEN 0
    ELSE LET dotProduct == Dot(a, b)
             normA == Dot(a, a)
             normB == Dot(b, b)
             denominator == RoundDiv(MathSqrt(normA) * MathSqrt(normB), 1000)
         IN  IF denominator = 0 THEN 0
             ELSE Quotient(dotProduct, denominator)

(***************************************************************************)
(* Array.prototype.sort((a, b) => b.score - a.score): stable, descending   *)
(***************************************************************************)
RECURSIVE InsertByScore(_, _)
InsertByScore(sorted, x) ==
    IF sorted = <<>> THEN <<x>>
    ELSE IF Head(sorted).score >= x.score
         THEN <<Head(sorted)>> \o InsertByScore(Tail(sorted), x)
         ELSE <<x>> \o sorted

RECURSIVE SortByScoreDesc(_)
SortByScoreDesc(s) ==
    IF s = <<>> THEN <<>>
    ELSE InsertByScore(SortByScoreDesc(SubSeq(s, 1, Len(s) - 1)), s[Len(s)])

(***************************************************************************)
(* Inputs of the model: equipment, URLs, pages, service responses          *)
(***************************************************************************)
\* EquipmentInfo.type of the request body: a category with disclaimers and
\* part sources of its own, and the one without
EquipmentTypes == {"vehicle", "other"}

\* the URL "u<i>" as character codes
Url(i) == <<117, 48 + i>>

Urls == {Url(i) : i \in 1..MaxUrls}

\* the result lists findRelevantUrls can hand to the crawl step: pairwise
\* distinct URLs, cut to the top 15; the URLs are numbered in the order of
\* their rank, so a list is a subset of the URLs in ascending order
RECURSIVE RankedList(_, _)
RankedList(S, i) ==
    IF i > MaxUrls THEN <<>>
    ELSE (IF Url(i) \in S THEN <<Url(i)>> ELSE <<>>) \o RankedList(S, i + 1)

TargetLists == {FirstN(RankedList(S, 1), 15) : S \in SUBSET Urls}

\* the distilled page content the crawl can produce: two or three long
\* paragraphs of one word each
DocContents ==
    { << <<600>>, <<600>> >>, << <<600>>, <<600>>, <<600>> >> }

\* embedding vectors of the embedding service (two dimensions)
DocVector(content) ==
    IF TextLen(content) < ChunkSize THEN <<1, 0>> ELSE <<1, 1>>

QueryVectors == {<<1, 0>>, <<0, 1>>}

\* what the fetch of a page returns: a thrown error or timeout, a non-2xx
\* status, a non-text content type, or an HTML body of htmlLen characters
\* whose extracted text is the single paragraph rawText
Pages ==
    { [kind |-> "network",   htmlLen |-> 0,   rawText |-> <<>>],
      [kind |-> "httpError", htmlLen |-> 0,   rawText |-> <<>>],
      [kind |-> "nonText",   htmlLen |-> 900, rawText |-> <<>>],
      [kind |-> "html",      htmlLen |-> 300, rawText |-> <<120, 129>>],
      [kind |-> "html",      htmlLen |-> 900, rawText |-> <<50>>],
      [kind |-> "html",      htmlLen |-> 900, rawText |-> <<120, 129>>] }

\* what the distillation call returns: a thrown error, a non-OK status, the
\* NOT_RELEVANT sentinel, an empty text, or a distilled text
Distillations ==
    { [kind |-> "network",     content |-> <<>>],
      [kind |-> "httpError",   content |-> <<>>],
      [kind |-> "notRelevant", content |-> <<>>],
      [kind |-> "text",        content |-> <<>>] }
    \cup {[kind |-> "text", content |-> c] : c \in DocContents}

(***************************************************************************)
(* DocumentCrawlerService: crawl                                           *)
(***************************************************************************)
\* Map.has / Map.get / Map.set on a map kept as a function
Has(map, key) == key \in DOMAIN map

Put(map, key, value) ==
    [k \in DOMAIN map \cup {key} |-> IF k = key THEN value ELSE map[k]]

EmptyMap == [k \in {} |-> <<>>]

\* rawText.slice(0, limit) of a one-paragraph text; a cut right after a
\* blank leaves a trailing blank, kept as a last word of length 0
RECURSIVE SliceWords(_, _)
SliceWords(words, limit) ==
    IF words = <<>> \/ limit <= 0 THEN <<>>
    ELSE IF Head(words) >= limit THEN <<limit>>
    ELSE IF Tail(words) = <<>> THEN <<Head(words)>>
    ELSE IF limit - Head(words) = 1 THEN <<Head(words), 0>>
    ELSE <<Head(words)>> \o SliceWords(Tail(words), limit - Head(words) - 1)

SliceText(rawText, limit) ==
    IF SliceWords(rawText, limit) = <<>> THEN <<>>
    ELSE <<SliceWords(rawText, limit)>>

\* cleanContentWithGemini: the distilled text, or <<>> for null and for ''
cleanContentWithGemini(dist) ==
    IF dist.kind = "text" THEN dist.content ELSE <<>>

\* variant of FetchAndExtract without the check of the extracted text
FetchAndExtractAnyText(url, page, dist) ==
    IF page.kind # "html" THEN <<>>
    ELSE IF page.htmlLen < MinHtmlLength THEN <<>>
    ELSE LET cleanedContent == cleanContentWithGemini(dist)
             content == IF cleanedContent # <<>> THEN cleanedContent
                        ELSE SliceText(page.rawText, RawTextLimit)
         IN  << [url |-> url, content |-> content] >>

\* variant of FetchAndExtract that drops a page whose distillation gave
\* nothing
FetchAndExtractDistilled(url, page, dist) ==
    IF page.kind # "html" THEN <<>>
    ELSE IF page.htmlLen < MinHtmlLength THEN <<>>
    ELSE IF ParaLen(page.rawText) < MinRawTextLength THEN <<>>
    ELSE LET cleanedContent == cleanContentWithGemini(dist)
         IN  IF cleanedContent = <<>> THEN <<>>
             ELSE << [url |-> url, content |-> cleanedContent] >>

\* crawlUrl without the cache: <<>> for null, else <<doc>>
FetchAndExtract(url, page, dist) ==
    IF page.kind # "html" THEN <<>>
    ELSE IF page.htmlLen < MinHtmlLength THEN <<>>
    ELSE IF ParaLen(page.rawText) < MinRawTextLength THEN <<>>
    ELSE LET cleanedContent == cleanContentWithGemini(dist)
             content == IF cleanedContent # <<>> THEN cleanedContent
                        ELSE SliceText(page.rawText, RawTextLimit)
         IN  << [url |-> url, content |-> content] >>

\* crawlUrl: [doc, cache]; a cached document short-circuits the fetch
crawlUrl(cache, url, page, dist) ==
    IF Has(cache, url)
    THEN [doc |-> <<cache[url]>>, cache |-> cache, fetched |-> FALSE]
    ELSE LET got == FetchAndExtract(url, page, dist)
         IN  [doc     |-> got,
              cache   |-> IF got = <<>> THEN cache
                          ELSE Put(cache, url, got[1]),
              fetched |-> TRUE]

(***************************************************************************)
(* DocumentCrawlerService: index and retrieve                              *)
(***************************************************************************)
\* the request RAGService.generateEmbeddings sends for its caller
generateEmbeddings(caller) ==
    [caller |-> caller, taskType |-> "RETRIEVAL_DOCUMENT"]

\* the request RAGService.generateQueryEmbedding sends for its caller
generateQueryEmbedding(caller) ==
    [caller |-> caller, taskType |-> "RETRIEVAL_QUERY"]

\* generateStoreId at clock value t: `equipment-<type>-<t>`
generateStoreId(query, t) == <<"equipment", query.type, t>>

NoStore == <<>>

\* chunks of all crawled documents, in crawl order
RECURSIVE ChunkAll(_)
ChunkAll(docs) ==
    IF docs = <<>> THEN <<>>
    ELSE chunkDocument(Head(docs)) \o ChunkAll(Tail(docs))

\* number of embedding sub-batches of n chunks
BatchCount(n) == (n + EmbedBatchSize - 1) \div EmbedBatchSize

\* { ...batch[j], embedding: embeddings[j] }
WithEmbedding(c, e) ==
    [ id          |-> c.id,
      documentUrl |-> c.documentUrl,
      content     |-> c.content,
      chunkIndex  |-> c.chunkIndex,
      embedding   |-> e ]

\* variant of embedAndStore that stores each sub-batch as it is embedded
embedAndStoreBatchwise(store, chunks, id, batchOk) ==
    LET bad == {b \in 1..BatchCount(Len(chunks)) : ~batchOk[b]}
        done == IF bad = {} THEN Len(chunks)
                ELSE ((CHOOSE b \in bad : \A c \in bad : b <= c) - 1)
                         * EmbedBatchSize
    IN  [threw |-> bad # {},
         store |-> Put(store, id,
                       [i \in 1..done |->
                           WithEmbedding(chunks[i],
                                         DocVector(chunks[i].content))])]

\* embedAndStore: batchOk[b] tells whether the embedding call of sub-batch b
\* succeeds; the first failing call throws before anything is stored
embedAndStore(store, chunks, id, batchOk) ==
    IF \E b \in 1..BatchCount(Len(chunks)) : ~batchOk[b]
    THEN [threw |-> TRUE, store |-> store]
    ELSE [threw |-> FALSE,
          store |-> Put(store, id,
                        [i \in 1..Len(chunks) |->
                            WithEmbedding(chunks[i],
                                          DocVector(chunks[i].content))])]

hasDocuments(store, id) ==
    Has(store, id) /\ Len(store[id]) > 0

\* queryDocuments once the query embedding is known
queryDocuments(store, id, queryEmbedding, topK) ==
    IF ~Has(store, id) THEN <<>>
    ELSE LET chunks == store[id]
             scored == [i \in 1..Len(chunks) |->
                          [content |-> chunks[i].content,
                           source  |-> chunks[i].documentUrl,
                           score   |-> cosineSimilarity(queryEmbedding,
                                                        chunks[i].embedding)]]
         IN  FirstN(SortByScoreDesc(scored), topK)

\* pieces of a context string, each with its length in characters
Piece(kind, n, ref) == [k |-> kind, n |-> n, ref |-> ref]

ContextLen(ctx) == SumSeq([i \in 1..Len(ctx) |-> ctx[i].n])

Digits(i) == IF i < 10 THEN 1 ELSE 2

\* `[Source i: url]\n` followed by the chunk text
SourcePart(i, r) ==
    << Piece("source", 12 + Digits(i) + Len(r.source), <<i>> \o r.source),
       Piece("content", TextLen(r.content), r.content) >>

RECURSIVE JoinParts(_, _)
JoinParts(results, i) ==
    IF i > Len(results) THEN <<>>
    ELSE (IF i > 1 THEN <<Piece("separator", 7, <<>>)>> ELSE <<>>)
         \o SourcePart(i, results[i]) \o JoinParts(results, i + 1)

\* getContextForDiagnosis from the results of queryDocuments
contextFromResults(results) ==
    IF Len(results) = 0 THEN <<>>
    ELSE <<Piece("header", 26, <<>>)>> \o JoinParts(results, 1)

(***************************************************************************)
(* route.ts: responses of the generative service                           *)
(***************************************************************************)
\* response of the diagnosis call: thrown network error, non-OK status, no
\* candidate text, text that is not JSON, or a diagnosis object
DiagnosisResponses ==
    { [kind |-> k, primaryDiagnosis |-> "", confidence |-> 0] :
          k \in {"network", "httpError", "empty", "unparsable"} }
    \cup { [kind |-> "ok", primaryDiagnosis |-> "worn CV joint",
            confidence |-> 90],
           [kind |-> "ok", primaryDiagnosis |-> "", confidence |-> 30] }

\* performDiagnosis: the diagnosis, or the message of the error it throws
performDiagnosis(resp) ==
    CASE resp.kind = "network"    -> [threw |-> TRUE, error |-> "fetch failed"]
      [] resp.kind = "httpError"  ->
             [threw |-> TRUE, error |-> "Diagnosis failed: service error"]
      [] resp.kind = "empty"      ->
             [threw |-> TRUE, error |-> "No diagnosis result"]
      [] resp.kind = "unparsable" ->
             [threw |-> TRUE, error |-> "Unexpected token in JSON"]
      [] OTHER                    -> [threw |-> FALSE, error |-> ""]

NoDiagnosis == [kind |-> "none", primaryDiagnosis |-> "", confidence |-> 0]

\* response of the web-search supplement call: thrown network error, non-OK
\* status, no candidate text, or a summary of n characters
SearchResponses ==
    { [kind |-> "network", n |-> 0], [kind |-> "httpError", n |-> 0],
      [kind |-> "text", n |-> 0], [kind |-> "text", n |-> 400] }

\* searchTechnicalDocs: the summary text, or the error it throws
searchTechnicalDocs(resp) ==
    IF resp.kind = "network"
    THEN [threw |-> TRUE, text |-> <<>>]
    ELSE [threw |-> FALSE,
          text  |-> IF resp.kind = "text" /\ resp.n > 0
                    THEN <<Piece("websearch", resp.n, <<>>)>> ELSE <<>>]

\* the fields the response schema of the guide requires
RequiredFields ==
    {"title", "summary", "totalTime", "overallDifficulty", "safetyWarnings",
     "requiredTools", "requiredParts", "steps"}

\* response of the guide-synthesis call: thrown network error, non-OK
\* status, no candidate text, text that is not JSON, or a JSON object with
\* the fields `fields` and (when present) nParts required parts
GuideResponses ==
    { [kind |-> k, fields |-> {}, nParts |-> 0] :
          k \in {"network", "httpError", "empty", "unparsable"} }
    \cup { [kind |-> "json", fields |-> RequiredFields, nParts |-> n] :
              n \in 0..MaxParts }
    \cup { [kind |-> "json", fields |-> RequiredFields \ {f},
            nParts |-> IF f = "requiredParts" THEN 0 ELSE 1] :
              f \in {"steps", "title", "requiredParts"} }

\* the part objects generateRepairGuide builds: whereToFind starts empty
NewParts(n) == [i \in 1..n |-> [name |-> i, whereToFind |-> <<>>]]

NoGuide ==
    [ fields |-> {}, requiredParts |-> <<>>, diagnosis |-> <<>>,
      confidenceScore |-> <<>>, disclaimers |-> <<>>, generatedAt |-> <<>> ]

\* generateRepairGuide: the guide, or the message of the error it throws
generateRepairGuide(resp) ==
    CASE resp.kind = "network"    ->
             [threw |-> TRUE, error |-> "fetch failed", guide |-> NoGuide]
      [] resp.kind = "httpError"  ->
             [threw |-> TRUE, error |-> "Guide generation failed: service error",
              guide |-> NoGuide]
      [] resp.kind = "empty"      ->
             [threw |-> TRUE, error |-> "No guide generated", guide |-> NoGuide]
      [] resp.kind = "unparsable" ->
             [threw |-> TRUE, error |-> "Unexpected token in JSON",
              guide |-> NoGuide]
      [] OTHER ->
             IF "requiredParts" \notin resp.fields
             THEN [threw |-> TRUE,
                   error |-> "Cannot read properties of undefined (reading 'map')",
                   guide |-> NoGuide]
             ELSE [threw |-> FALSE, error |-> "",
                   guide |-> [NoGuide EXCEPT
                                 !.fields = resp.fields,
                                 !.requiredParts = NewParts(resp.nParts)]]

(***************************************************************************)
(* route.ts: parts lookup and disclaimers                                  *)
(***************************************************************************)
\* response of one part-sources search: thrown network error, non-OK
\* status, a body that is not JSON, JSON without `sources`, or live sources
PartResponses ==
    {"network", "httpError", "unparsable", "noSources", "sources"}

LiveSources == <<"Live Parts Store">>

getDefaultSources(equipmentType) ==
    CASE equipmentType = "vehicle" ->
             <<"AutoZone", "O'Reilly Auto Parts", "RockAuto">>
      [] equipmentType = "appliance" -> <<"RepairClinic", "PartSelect">>
      [] equipmentType = "hvac" -> <<"Grainger", "SupplyHouse">>
      [] equipmentType = "plumbing" -> <<"Home Depot", "Lowe's">>
      [] equipmentType = "electrical" -> <<"Home Depot", "Lowe's">>
      [] OTHER -> <<"Amazon", "Home Depot">>

\* searchPartSources: the sources, or threw when the fetch itself throws
searchPartSources(resp, equipmentType) ==
    CASE resp = "network" -> [threw |-> TRUE, sources |-> <<>>]
      [] resp = "sources" -> [threw |-> FALSE, sources |-> LiveSources]
      [] OTHER -> [threw |-> FALSE,
                   sources |-> getDefaultSources(equipmentType)]

\* variant of findParts that searches live for every part
findPartsSearchingAll(parts, equipmentType, resps) ==
    [i \in 1..Len(parts) |->
        LET found == searchPartSources(resps[i], equipmentType)
        IN  IF found.threw
            THEN [parts[i] EXCEPT
                     !.whereToFind = getDefaultSources(equipmentType)]
            ELSE [parts[i] EXCEPT !.whereToFind = found.sources]]

\* findParts: resps[i] is the response to the search for part i
findParts(parts, equipmentType, resps) ==
    [i \in 1..Len(parts) |->
        IF i <= PartsSearchLimit
        THEN LET found == searchPartSources(resps[i], equipmentType)
             IN  IF found.threw
                 THEN [parts[i] EXCEPT
                          !.whereToFind = getDefaultSources(equipmentType)]
                 ELSE [parts[i] EXCEPT !.whereToFind = found.sources]
        ELSE [parts[i] EXCEPT
                 !.whereToFind = getDefaultSources(equipmentType)]]

CommonDisclaimers ==
    << "This guide is for informational purposes only.",
       "Always prioritize safety. If unsure, consult a professional.",
       "Disconnect power/fuel sources before beginning any repair.",
       "Use appropriate personal protective equipment (PPE).",
       "AI-generated content may contain errors. Verify critical information." >>

SpecificDisclaimers(equipmentType) ==
    CASE equipmentType = "vehicle" ->
             << "Working on vehicles can be dangerous. Always use jack stands.",
                "Some repairs may void your warranty.",
                "Automotive fluids are hazardous. Dispose of properly." >>
      [] equipmentType = "appliance" ->
             << "Always unplug appliances before servicing.",
                "Gas appliances should only be serviced by qualified technicians." >>
      [] equipmentType = "hvac" ->
             << "HVAC systems involve high voltage and refrigerants.",
                "Refrigerant handling requires EPA certification." >>
      [] equipmentType = "electrical" ->
             << "Electrical work is dangerous and may require permits.",
                "Always turn off circuit breakers before working." >>
      [] equipmentType = "plumbing" ->
             << "Know your main water shutoff location.",
                "Gas line work requires licensed professionals." >>
      [] OTHER -> <<>>

getDisclaimers(equipmentType) ==
    CommonDisclaimers \o SpecificDisclaimers(equipmentType)

Runs == {1, 2}

IdleRun ==
    [ pc |-> "idle", targeted |-> FALSE, targets |-> <<>>, todo |-> {},
      crawlResults |-> <<>>, result |-> <<>> ]

NoResponse == [status |-> 0, success |-> FALSE, error |-> "", hasGuide |-> FALSE]

\* no operation has been called on its own
NoCall == [op |-> "none"]

\* the variables of the calls made on single operations
callVars == << lastCall, lastResult, firstChunked, ragChunking, crawls >>

\* the overlapping crawlUrl calls, and a call that has not been made
CrawlCalls == 1..MaxCrawlCalls

NotCrawling ==
    [ pc |-> "idle", url |-> <<>>, doc |-> <<>>, fetched |-> FALSE,
      began |-> 0, ended |-> 0 ]

NotChunking ==
    [ pc |-> "idle", content |-> [length |-> 0, dots |-> {}, paragraphs |-> {}],
      start |-> 0, chunkIndex |-> 0, chunks |-> <<>> ]

NoCalls ==
    [ ingest |-> 0, diagnosis |-> 0, retrieval |-> 0, supplement |-> 0,
      synthesis |-> 0, parts |-> 0 ]

Init ==
    /\ stage = "idle"
    /\ equipment = [type |-> "other"]
    /\ diagnosis = NoDiagnosis
    /\ diagResponse = NoDiagnosis
    /\ runs = [r \in Runs |-> IdleRun]
    /\ documentStore = EmptyMap
    /\ crawlCache = EmptyMap
    /\ now = 0
    /\ storeId = NoStore
    /\ technicalContext = <<>>
    /\ retrieved = <<>>
    /\ partResponses = <<>>
    /\ guide = NoGuide
    /\ guideResponse = [kind |-> "none", fields |-> {}, nParts |-> 0]
    /\ response = NoResponse
    /\ calls = NoCalls
    /\ lastCall = NoCall
    /\ lastResult = <<>>
    /\ firstChunked = <<>>
    /\ ragChunking = NotChunking
    /\ embedRequests = {}
    /\ crawls = [c \in CrawlCalls |-> NotCrawling]

(***************************************************************************)
(* DocumentCrawlerService.ingestForEquipment, one step per await           *)
(***************************************************************************)
FailedIngestion(message) ==
    [ success |-> FALSE, documentsFound |-> 0, documentsCrawled |-> 0,
      chunksCreated |-> 0, storeId |-> NoStore, errors |-> <<message>> ]

NoResult == FailedIngestion("pending")

\* the call itself: the synchronous prefix up to the first search request
StartedRun(targeted) ==
    [ pc |-> "search", targeted |-> targeted, targets |-> <<>>, todo |-> {},
      crawlResults |-> <<>>, result |-> NoResult ]

ReturnedRun(run, result) ==
    [ pc |-> "returned", targeted |-> run.targeted, targets |-> <<>>,
      todo |-> {}, crawlResults |-> <<>>, result |-> result ]

\* steps 1-2: the search queries are answered with one of the given target
\* lists; no target ends the run
FindRelevantUrlsAmong(r, lists) ==
    /\ runs[r].pc = "search"
    /\ \E found \in lists :
          runs' = [runs EXCEPT ![r] =
                      IF Len(found) = 0
                      THEN ReturnedRun(@, FailedIngestion(
                                              "No relevant documents found"))
                      ELSE [@ EXCEPT
                               !.pc = "crawl",
                               !.targets = found,
                               !.todo = 1..Min(Len(found), CrawlLimit),
                               !.crawlResults =
                                   [i \in 1..Min(Len(found), CrawlLimit) |-> <<>>]]]
    /\ UNCHANGED << stage, equipment, diagnosis, diagResponse, documentStore,
                    crawlCache, now, storeId, technicalContext, guide,
                    guideResponse, response, calls,
                    retrieved, partResponses >>
    /\ UNCHANGED << callVars, embedRequests >>

\* steps 1-2 over every target list
FindRelevantUrls(r) == FindRelevantUrlsAmong(r, TargetLists)

\* step 3: one of the parallel crawlUrl calls settles; Promise.all keeps
\* the results in the order of the targets
CrawlUrl(r) ==
    /\ runs[r].pc = "crawl"
    /\ \E i \in runs[r].todo :
          \E crawled \in {crawlUrl(crawlCache, runs[r].targets[i], page, dist) :
                             page \in Pages, dist \in Distillations} :
              /\ crawlCache' = crawled.cache
              /\ runs' = [runs EXCEPT
                            ![r].todo = @ \ {i},
                            ![r].crawlResults[i] = crawled.doc]
    /\ UNCHANGED << stage, equipment, diagnosis, diagResponse, documentStore,
                    now, storeId, technicalContext, guide, guideResponse,
                    response, calls,
                    retrieved, partResponses >>
    /\ UNCHANGED << callVars, embedRequests >>

\* variant of crawledDocs in which a failed crawl drops the later documents
RECURSIVE DocsUntilFailure(_)
DocsUntilFailure(crawlResults) ==
    IF crawlResults = <<>> \/ Head(crawlResults) = <<>> THEN <<>>
    ELSE Head(crawlResults) \o DocsUntilFailure(Tail(crawlResults))

crawledDocsUntilFailure(run) == DocsUntilFailure(run.crawlResults)

\* crawledDocs: the documents of the crawls that returned one, listed here
\* in the order of the targets (the code pushes them as the crawls complete;
\* only the order of the chunks in a store depends on it)
crawledDocs(run) == Flatten(run.crawlResults)

\* the IngestionResult of a run that reached its end
IngestionResult(run, chunks, id) ==
    [ success |-> TRUE, documentsFound |-> Len(run.targets),
      documentsCrawled |-> Len(crawledDocs(run)),
      chunksCreated |-> Len(chunks), storeId |-> id, errors |-> <<>> ]

\* steps 4-5: chunk, embed and store; an embedding error is caught and
\* turned into a failed result
EmbedAndStore(r) ==
    /\ runs[r].pc = "crawl"
    /\ runs[r].todo = {}
    /\ LET allChunks == ChunkAll(crawledDocs(runs[r]))
           id == generateStoreId(equipment, now)
       IN  \E batchOk \in [1..BatchCount(Len(allChunks)) -> BOOLEAN] :
              LET stored == embedAndStore(documentStore, allChunks, id, batchOk)
              IN  /\ documentStore' = stored.store
                  /\ embedRequests' =
                         IF Len(allChunks) = 0 THEN embedRequests
                         ELSE embedRequests
                                  \cup {generateEmbeddings("embedAndStore")}
                  /\ runs' = [runs EXCEPT ![r] =
                               ReturnedRun(@,
                                   IF stored.threw
                                   THEN FailedIngestion(
                                            "Failed to generate embeddings")
                                   ELSE IngestionResult(@, allChunks, id))]
    /\ now' = now + 1
    /\ UNCHANGED << stage, equipment, diagnosis, diagResponse, crawlCache,
                    storeId, technicalContext, guide, guideResponse, response,
                    calls,
                    retrieved, partResponses >>
    /\ UNCHANGED callVars

(***************************************************************************)
(* route.ts: the POST handler, one step per await                          *)
(***************************************************************************)
ErrorResponse(message) ==
    [status |-> 500, success |-> FALSE, error |-> message, hasGuide |-> FALSE]

SuccessResponse ==
    [status |-> 200, success |-> TRUE, error |-> "", hasGuide |-> TRUE]

\* lines 74-108: the key check, the body, the first ingestion started without
\* awaiting it, and the diagnosis call issued
Start ==
    /\ stage = "idle"
    /\ \E configured \in BOOLEAN, body \in EquipmentTypes \cup {"malformed"} :
          IF ~configured
          THEN /\ stage' = "failed"
               /\ response' = ErrorResponse("GEMINI_API_KEY not configured")
               /\ UNCHANGED << equipment, runs, calls >>
          ELSE IF body = "malformed"
          THEN /\ stage' = "failed"
               /\ response' = ErrorResponse("Unexpected token in JSON")
               /\ UNCHANGED << equipment, runs, calls >>
          ELSE /\ stage' = "diagnosing"
               /\ equipment' = [type |-> body]
               /\ runs' = [runs EXCEPT ![1] = StartedRun(FALSE)]
               /\ calls' = [calls EXCEPT !.ingest = 1, !.diagnosis = 1]
               /\ UNCHANGED response
    /\ UNCHANGED << diagnosis, diagResponse, documentStore, crawlCache, now,
                    storeId, technicalContext, guide, guideResponse,
                    retrieved, partResponses >>
    /\ UNCHANGED << callVars, embedRequests >>

\* line 108: the diagnosis call settles
DiagnosisReturns ==
    /\ stage = "diagnosing"
    /\ \E resp \in DiagnosisResponses :
          LET d == performDiagnosis(resp)
          IN  /\ diagResponse' = resp
              /\ IF d.threw
                 THEN /\ stage' = "failed"
                      /\ response' = ErrorResponse(d.error)
                      /\ UNCHANGED diagnosis
                 ELSE /\ stage' = "awaitCrawl"
                      /\ diagnosis' = resp
                      /\ UNCHANGED response
    /\ UNCHANGED << equipment, runs, documentStore, crawlCache, now, storeId,
                    technicalContext, guide, guideResponse, calls,
                    retrieved, partResponses >>
    /\ UNCHANGED << callVars, embedRequests >>

\* variant of needsTargetedCrawl that also runs at exactly 5 chunks
needsTargetedCrawlAtThreshold(crawlResult, diag) ==
    crawlResult.chunksCreated <= MinChunksForStore /\ diag.primaryDiagnosis # ""

\* line 118: whether the targeted crawl runs
needsTargetedCrawl(crawlResult, diag) ==
    crawlResult.chunksCreated < MinChunksForStore /\ diag.primaryDiagnosis # ""

\* variant of storeAfterTargeted that also replaces the store on a tie
storeAfterTargetedOnTie(current, crawlResult, targetedCrawl) ==
    IF targetedCrawl.chunksCreated >= crawlResult.chunksCreated
    THEN targetedCrawl.storeId
    ELSE current

\* lines 125-127: the store id after the targeted crawl
storeAfterTargeted(current, crawlResult, targetedCrawl) ==
    IF targetedCrawl.chunksCreated > crawlResult.chunksCreated
    THEN targetedCrawl.storeId
    ELSE current

\* variant of AwaitCrawl that goes on without joining the first ingestion
AwaitCrawlUnjoined ==
    /\ stage = "awaitCrawl"
    /\ storeId' = runs[1].result.storeId
    /\ IF needsTargetedCrawl(runs[1].result, diagnosis)
       THEN /\ stage' = "targeted"
            /\ runs' = [runs EXCEPT ![2] = StartedRun(TRUE)]
            /\ calls' = [calls EXCEPT !.ingest = @ + 1]
       ELSE /\ stage' = "query"
            /\ UNCHANGED << runs, calls >>
    /\ UNCHANGED << equipment, diagnosis, diagResponse, documentStore,
                    crawlCache, now, technicalContext, guide, guideResponse,
                    response, retrieved, partResponses >>
    /\ UNCHANGED << callVars, embedRequests >>

\* lines 113-124: the first ingestion is joined; the targeted one may start
AwaitCrawl ==
    /\ stage = "awaitCrawl"
    /\ runs[1].pc = "returned"
    /\ storeId' = runs[1].result.storeId
    /\ IF needsTargetedCrawl(runs[1].result, diagnosis)
       THEN /\ stage' = "targeted"
            /\ runs' = [runs EXCEPT ![2] = StartedRun(TRUE)]
            /\ calls' = [calls EXCEPT !.ingest = @ + 1]
       ELSE /\ stage' = "query"
            /\ UNCHANGED << runs, calls >>
    /\ UNCHANGED << equipment, diagnosis, diagResponse, documentStore,
                    crawlCache, now, technicalContext, guide, guideResponse,
                    response,
                    retrieved, partResponses >>
    /\ UNCHANGED << callVars, embedRequests >>

\* lines 120-128: the targeted ingestion is joined
AwaitTargeted ==
    /\ stage = "targeted"
    /\ runs[2].pc = "returned"
    /\ storeId' = storeAfterTargeted(storeId, runs[1].result, runs[2].result)
    /\ stage' = "query"
    /\ UNCHANGED << equipment, diagnosis, diagResponse, runs, documentStore,
                    crawlCache, now, technicalContext, guide, guideResponse,
                    response, calls,
                    retrieved, partResponses >>
    /\ UNCHANGED << callVars, embedRequests >>

\* response of the embedding call for the query: a failure (network error,
\* non-OK status, unexpected format) or the vector
QueryEmbeddings ==
    {[ok |-> FALSE, vector |-> <<>>]}
    \cup {[ok |-> TRUE, vector |-> v] : v \in QueryVectors}

\* getContextForDiagnosis: the context, or threw when the query embedding
\* call fails (neither queryDocuments nor getContextForDiagnosis catches it)
getContextForDiagnosis(store, id, emb) ==
    IF ~Has(store, id) \/ Len(store[id]) = 0
    THEN [threw |-> FALSE, text |-> <<>>, results |-> <<>>]
    ELSE IF ~emb.ok
    THEN [threw |-> TRUE, text |-> <<>>, results |-> <<>>]
    ELSE LET results == queryDocuments(store, id, emb.vector, ContextTopK)
         IN  [threw   |-> FALSE,
              text    |-> contextFromResults(results),
              results |-> results]

\* variant of queriesStore that queries whatever the store id is
queriesStoreAlways(id, store) ==
    TRUE

\* line 133: whether the store is queried at all
queriesStore(id, store) ==
    id # NoStore /\ hasDocuments(store, id)

\* lines 130-139: step 4, the retrieval
QueryContext ==
    /\ stage = "query"
    /\ IF queriesStore(storeId, documentStore)
       THEN /\ calls' = [calls EXCEPT !.retrieval = @ + 1]
            /\ embedRequests' =
                   embedRequests \cup {generateEmbeddings("queryDocuments")}
            /\ \E emb \in QueryEmbeddings :
                  LET got == getContextForDiagnosis(documentStore, storeId, emb)
                  IN  IF got.threw
                      THEN /\ stage' = "failed"
                           /\ response' = ErrorResponse(
                                  "Failed to generate embeddings: 500")
                           /\ UNCHANGED << technicalContext, retrieved >>
                      ELSE /\ stage' = "fallback"
                           /\ technicalContext' = got.text
                           /\ retrieved' = got.results
                           /\ UNCHANGED response
       ELSE /\ stage' = "fallback"
            /\ technicalContext' = <<>>
            /\ UNCHANGED << retrieved, response, calls, embedRequests >>
    /\ UNCHANGED << equipment, diagnosis, diagResponse, runs, documentStore,
                    crawlCache, now, storeId, guide, guideResponse,
                    partResponses >>
    /\ UNCHANGED callVars

\* line 142: whether the web-search supplement is requested
needsSupplement(ctx) == ContextLen(ctx) < MinContextChars

\* variant of supplementContext that replaces the retrieved context
supplementContextReplacing(ctx, searchContext) ==
    searchContext

\* lines 145-147: the context after the supplement
supplementContext(ctx, searchContext) ==
    IF ctx # <<>>
    THEN ctx \o <<Piece("delimiter", 38, <<>>)>> \o searchContext
    ELSE searchContext

\* lines 141-148: step 4b, the web-search supplement
Supplement ==
    /\ stage = "fallback"
    /\ IF needsSupplement(technicalContext)
       THEN /\ calls' = [calls EXCEPT !.supplement = @ + 1]
            /\ \E resp \in SearchResponses :
                  LET found == searchTechnicalDocs(resp)
                  IN  IF found.threw
                      THEN /\ stage' = "failed"
                           /\ response' = ErrorResponse("fetch failed")
                           /\ UNCHANGED technicalContext
                      ELSE /\ stage' = "generate"
                           /\ technicalContext' =
                                  supplementContext(technicalContext, found.text)
                           /\ UNCHANGED response
       ELSE /\ stage' = "generate"
            /\ UNCHANGED << technicalContext, response, calls >>
    /\ UNCHANGED << equipment, diagnosis, diagResponse, runs, documentStore,
                    crawlCache, now, storeId, guide, guideResponse,
                    retrieved, partResponses >>
    /\ UNCHANGED << callVars, embedRequests >>

\* variant of Generate that repeats a failed synthesis call once
GenerateRetrying ==
    /\ stage = "generate"
    /\ calls' = [calls EXCEPT !.synthesis = @ + 1]
    /\ \E resp \in GuideResponses :
          LET made == generateRepairGuide(resp)
          IN  /\ guideResponse' = resp
              /\ IF made.threw /\ calls.synthesis = 0
                 THEN UNCHANGED << stage, response, guide >>
                 ELSE IF made.threw
                 THEN /\ stage' = "failed"
                      /\ response' = ErrorResponse(made.error)
                      /\ UNCHANGED guide
                 ELSE /\ stage' = "parts"
                      /\ guide' = made.guide
                      /\ UNCHANGED response
    /\ UNCHANGED << equipment, diagnosis, diagResponse, runs, documentStore,
                    crawlCache, now, storeId, technicalContext,
                    retrieved, partResponses >>
    /\ UNCHANGED << callVars, embedRequests >>

\* lines 150-157: step 5, the guide synthesis
Generate ==
    /\ stage = "generate"
    /\ calls' = [calls EXCEPT !.synthesis = @ + 1]
    /\ \E resp \in GuideResponses :
          LET made == generateRepairGuide(resp)
          IN  /\ guideResponse' = resp
              /\ IF made.threw
                 THEN /\ stage' = "failed"
                      /\ response' = ErrorResponse(made.error)
                      /\ UNCHANGED guide
                 ELSE /\ stage' = "parts"
                      /\ guide' = made.guide
                      /\ UNCHANGED response
    /\ UNCHANGED << equipment, diagnosis, diagResponse, runs, documentStore,
                    crawlCache, now, storeId, technicalContext,
                    retrieved, partResponses >>
    /\ UNCHANGED << callVars, embedRequests >>

\* lines 164-167: the metadata added to the guide
annotate(g, diag, equipmentType) ==
    [g EXCEPT !.diagnosis = <<diag>>,
              !.confidenceScore = <<diag.confidence>>,
              !.disclaimers = getDisclaimers(equipmentType)]

\* lines 159-188: step 6, the parts lookup, the metadata and the response
FindPartsAndRespond ==
    /\ stage = "parts"
    /\ LET searched == Min(Len(guide.requiredParts), PartsSearchLimit)
       IN  /\ calls' = [calls EXCEPT !.parts = @ + searched]
           /\ \E partsWithSources \in
                     {findParts(guide.requiredParts, equipment.type, resps) :
                         resps \in [1..searched -> PartResponses]} :
                 guide' = annotate(
                     [guide EXCEPT !.requiredParts = partsWithSources],
                     diagnosis, equipment.type)
    /\ stage' = "done"
    /\ response' = SuccessResponse
    /\ UNCHANGED << equipment, diagnosis, diagResponse, runs, documentStore,
                    crawlCache, now, storeId, technicalContext, guideResponse,
                    retrieved, partResponses >>
    /\ UNCHANGED << callVars, embedRequests >>

Next ==
    \/ Start
    \/ DiagnosisReturns
    \/ AwaitCrawl
    \/ AwaitTargeted
    \/ QueryContext
    \/ Supplement
    \/ Generate
    \/ FindPartsAndRespond
    \/ \E r \in Runs : FindRelevantUrls(r)
    \/ \E r \in Runs : CrawlUrl(r)
    \/ \E r \in Runs : EmbedAndStore(r)

Spec == Init /\ [][Next]_vars

(***************************************************************************)
(* listen-fix-service.ts: ListenFixService.analyze, one step per await     *)
(***************************************************************************)
\* analyze returns a result object, not an HTTP response
ServiceFailure(message) ==
    [status |-> 0, success |-> FALSE, error |-> message, hasGuide |-> FALSE]

ServiceSuccess ==
    [status |-> 0, success |-> TRUE, error |-> "", hasGuide |-> TRUE]

\* DiagnosticService.diagnose: the diagnosis, or the message of its error
diagnose(resp) ==
    CASE resp.kind = "network"    -> [threw |-> TRUE, error |-> "fetch failed"]
      [] resp.kind = "httpError"  ->
             [threw |-> TRUE, error |-> "Diagnosis failed: service error"]
      [] resp.kind = "empty"      ->
             [threw |-> TRUE, error |-> "No response from model"]
      [] resp.kind = "unparsable" ->
             [threw |-> TRUE, error |-> "Unexpected token in JSON"]
      [] OTHER                    -> [threw |-> FALSE, error |-> ""]

\* what the File Search query of retrieveTechnicalDocs meets: no store
\* registered for the equipment type, a thrown error, or an answer
FileSearchResponses ==
    { [kind |-> "noStores", n |-> 0], [kind |-> "threw", n |-> 0],
      [kind |-> "answer", n |-> 700] }

\* searchWebForTechnicalInfo: the summary text, or threw
searchWebForTechnicalInfo(resp) ==
    IF resp.kind = "network"
    THEN [threw |-> TRUE, text |-> <<>>]
    ELSE [threw |-> FALSE,
          text  |-> IF resp.kind = "text" /\ resp.n > 0
                    THEN <<Piece("websearch", resp.n, <<>>)>> ELSE <<>>]

\* retrieveTechnicalDocs: the File Search answer, else the web search
retrieveTechnicalDocs(fileSearch, resp) ==
    IF fileSearch.kind = "answer"
    THEN [threw |-> FALSE,
          text  |-> <<Piece("filesearch", fileSearch.n, <<>>)>>]
    ELSE searchWebForTechnicalInfo(resp)

\* transformGuide: every field the raw guide lacks gets a default
transformGuide(raw) ==
    [ fields          |-> RequiredFields,
      requiredParts   |-> IF "requiredParts" \in raw.fields
                          THEN NewParts(raw.nParts) ELSE <<>>,
      diagnosis       |-> <<>>,
      confidenceScore |-> <<0>>,
      disclaimers     |-> <<>>,
      generatedAt     |-> <<"">> ]

\* ListenFixService.generateRepairGuide: an absent text parses as `{}`
serviceGenerateRepairGuide(resp) ==
    CASE resp.kind = "network"    ->
             [threw |-> TRUE, error |-> "fetch failed", guide |-> NoGuide]
      [] resp.kind = "httpError"  ->
             [threw |-> TRUE,
              error |-> "Failed to generate repair guide: service error",
              guide |-> NoGuide]
      [] resp.kind = "unparsable" ->
             [threw |-> TRUE, error |-> "Unexpected token in JSON",
              guide |-> NoGuide]
      [] OTHER ->
             [threw |-> FALSE, error |-> "", guide |-> transformGuide(resp)]

getDefaultPartSources(equipmentType) ==
    CASE equipmentType = "vehicle" ->
             <<"AutoZone", "O'Reilly Auto Parts", "Advance Auto Parts",
               "RockAuto">>
      [] equipmentType = "appliance" ->
             <<"RepairClinic", "PartSelect", "Appliance Parts Pros">>
      [] equipmentType = "hvac" -> <<"Grainger", "SupplyHouse">>
      [] OTHER -> <<"Amazon", "Home Depot", "Lowe's">>

\* ListenFixService.searchPartSources: only the fetch itself can throw
serviceSearchPartSources(resp, equipmentType) ==
    CASE resp = "network" -> [threw |-> TRUE, sources |-> <<>>]
      [] resp = "sources" -> [threw |-> FALSE, sources |-> LiveSources]
      [] OTHER -> [threw |-> FALSE,
                   sources |-> getDefaultPartSources(equipmentType)]

\* findPartsAvailability: a lookup that throws returns the part as it is
findPartsAvailability(parts, equipmentType, resps) ==
    [i \in 1..Len(parts) |->
        LET found == serviceSearchPartSources(resps[i], equipmentType)
        IN  IF found.threw THEN parts[i]
            ELSE [parts[i] EXCEPT !.whereToFind = found.sources]]

ServiceCommonDisclaimers ==
    << "This guide is for informational purposes only.",
       "Always prioritize safety. If unsure, consult a professional.",
       "Disconnect power/fuel sources before beginning any repair.",
       "Use appropriate personal protective equipment (PPE)." >>

ServiceSpecificDisclaimers(equipmentType) ==
    CASE equipmentType = "vehicle" ->
             << "Working on vehicles can be dangerous. Use jack stands, never just a jack.",
                "Some repairs may void your warranty. Check with your dealer.",
                "Automotive repairs may require specific certifications in some areas." >>
      [] equipmentType = "appliance" ->
             << "Always unplug appliances before servicing.",
                "Gas appliances should only be serviced by qualified technicians.",
                "Water-using appliances: turn off water supply before repair." >>
      [] equipmentType = "hvac" ->
             << "HVAC systems involve high voltage and refrigerants.",
                "Refrigerant handling requires EPA certification.",
                "Gas furnace repairs should be done by licensed professionals." >>
      [] equipmentType = "electrical" ->
             << "Electrical work is dangerous and often requires permits.",
                "Always turn off circuit breakers before working on electrical systems.",
                "Many electrical repairs require a licensed electrician." >>
      [] equipmentType = "plumbing" ->
             << "Know the location of your main water shutoff valve.",
                "Some plumbing repairs require permits in certain jurisdictions.",
                "Gas line work must be done by licensed professionals." >>
      [] OTHER -> <<>>

\* lines 297-301: the final touches of analyze at clock value t
finalTouches(g, diag, equipmentType, t) ==
    [g EXCEPT !.diagnosis = <<diag>>,
              !.generatedAt = <<t>>,
              !.confidenceScore = <<diag.confidence>>,
              !.disclaimers = ServiceCommonDisclaimers
                                  \o ServiceSpecificDisclaimers(equipmentType)]

\* what the route handler and the crawler own stays as it is
routeVars == << runs, documentStore, crawlCache, now, storeId, retrieved >>

\* analyze is called and issues the diagnosis call
Analyze ==
    /\ stage = "idle"
    /\ \E type \in EquipmentTypes : equipment' = [type |-> type]
    /\ stage' = "diagnosing"
    /\ calls' = [calls EXCEPT !.diagnosis = 1]
    /\ UNCHANGED << diagnosis, diagResponse, technicalContext, guide,
                    guideResponse, partResponses, response >>
    /\ UNCHANGED routeVars
    /\ UNCHANGED << callVars, embedRequests >>

\* step 1: the diagnosis call settles
Diagnose ==
    /\ stage = "diagnosing"
    /\ \E resp \in DiagnosisResponses :
          LET d == diagnose(resp)
          IN  /\ diagResponse' = resp
              /\ IF d.threw
                 THEN /\ stage' = "failed"
                      /\ response' = ServiceFailure(d.error)
                      /\ UNCHANGED diagnosis
                 ELSE /\ stage' = "retrieve"
                      /\ diagnosis' = resp
                      /\ UNCHANGED response
    /\ UNCHANGED << equipment, technicalContext, guide, guideResponse,
                    partResponses, calls >>
    /\ UNCHANGED routeVars
    /\ UNCHANGED << callVars, embedRequests >>

\* step 2: retrieveTechnicalDocs settles
RetrieveTechnicalDocs ==
    /\ stage = "retrieve"
    /\ \E fileSearch \in FileSearchResponses, resp \in SearchResponses :
          LET found == retrieveTechnicalDocs(fileSearch, resp)
          IN  /\ calls' = [calls EXCEPT
                              !.retrieval = IF fileSearch.kind = "noStores"
                                            THEN @ ELSE @ + 1,
                              !.supplement = IF fileSearch.kind = "answer"
                                             THEN @ ELSE @ + 1]
              /\ IF found.threw
                 THEN /\ stage' = "failed"
                      /\ response' = ServiceFailure("fetch failed")
                      /\ UNCHANGED technicalContext
                 ELSE /\ stage' = "generate"
                      /\ technicalContext' = found.text
                      /\ UNCHANGED response
    /\ UNCHANGED << equipment, diagnosis, diagResponse, guide, guideResponse,
                    partResponses >>
    /\ UNCHANGED routeVars
    /\ UNCHANGED << callVars, embedRequests >>

\* step 3: the guide synthesis settles
GenerateRepairGuide ==
    /\ stage = "generate"
    /\ calls' = [calls EXCEPT !.synthesis = @ + 1]
    /\ \E resp \in GuideResponses :
          LET made == serviceGenerateRepairGuide(resp)
          IN  /\ guideResponse' = resp
              /\ IF made.threw
                 THEN /\ stage' = "failed"
                      /\ response' = ServiceFailure(made.error)
                      /\ UNCHANGED guide
                 ELSE /\ stage' = "parts"
                      /\ guide' = made.guide
                      /\ UNCHANGED response
    /\ UNCHANGED << equipment, diagnosis, diagResponse, technicalContext,
                    partResponses >>
    /\ UNCHANGED routeVars
    /\ UNCHANGED << callVars, embedRequests >>

\* steps 4-5: the part lookups settle, the final touches, the result
FindPartsAvailability ==
    /\ stage = "parts"
    /\ \E resps \in [1..Len(guide.requiredParts) -> PartResponses] :
          /\ partResponses' = resps
          /\ guide' = finalTouches(
                 [guide EXCEPT !.requiredParts =
                     findPartsAvailability(guide.requiredParts,
                                           equipment.type, resps)],
                 diagnosis, equipment.type, now)
    /\ calls' = [calls EXCEPT !.parts = @ + Len(guide.requiredParts)]
    /\ stage' = "done"
    /\ response' = ServiceSuccess
    /\ UNCHANGED << equipment, diagnosis, diagResponse, technicalContext,
                    guideResponse >>
    /\ UNCHANGED routeVars
    /\ UNCHANGED << callVars, embedRequests >>

NextService ==
    \/ Analyze
    \/ Diagnose
    \/ RetrieveTechnicalDocs
    \/ GenerateRepairGuide
    \/ FindPartsAvailability

SpecService == Init /\ [][NextService]_vars

(***************************************************************************)
(* Properties of the POST handler                                          *)
(***************************************************************************)
\* the error messages that name the diagnosis stage
DiagnosisStageErrors ==
    {"Diagnosis failed: service error", "No diagnosis result"}

\* the error messages that name the guide-synthesis stage
SynthesisStageErrors ==
    {"Guide generation failed: service error", "No guide generated"}

\* the first ingestion has been joined by the handler
AfterFirstJoin ==
    \/ stage \in {"targeted", "query", "fallback", "generate", "parts", "done"}
    \/ stage = "failed" /\ diagResponse.kind = "ok"

\* the targeted ingestion, if any, has been joined by the handler
AfterIngestion ==
    AfterFirstJoin /\ stage # "targeted"

\* C1: whenever the diagnosis call and the guide-synthesis call both succeed
\* the request is not failed: a request that failed although its diagnosis
\* succeeded has issued the synthesis call and that call failed.  (Violated:
\* a failing query-embedding call during retrieval and a web-search
\* supplement call that throws both fail the request before synthesis.)
C1_OnlyDiagnosisOrSynthesisFails ==
    (stage = "failed" /\ diagResponse.kind = "ok")
        => (calls.synthesis > 0 /\ generateRepairGuide(guideResponse).threw)

\* C2: a synthesis response that lacks a required field ends the request in
\* failure with an error naming the synthesis stage, and never yields a
\* success response.  (Violated: a response without `steps` is accepted, and
\* one without `requiredParts` fails with a generic TypeError message.)
C2_IncompleteGuideIsSynthesisFailure ==
    (guideResponse.kind = "json" /\ guideResponse.fields # RequiredFields)
        => /\ stage = "failed"
           /\ response.error \in SynthesisStageErrors
           /\ ~response.success

\* C3: a failed diagnosis call (non-OK, empty or unparsable) ends the request
\* in the failed state with an error naming the diagnosis stage, and none of
\* the later calls is issued.  (Violated: unparsable output fails with the
\* JSON parser's message, which does not name the stage.)
C3_DiagnosisFailureIsTerminal ==
    (diagResponse.kind \in {"httpError", "empty", "unparsable"})
        => /\ stage = "failed"
           /\ ~response.success
           /\ response.error \in DiagnosisStageErrors
           /\ calls.ingest = 1
           /\ runs[2].pc = "idle"
           /\ calls.retrieval = 0
           /\ calls.supplement = 0
           /\ calls.synthesis = 0
           /\ calls.parts = 0

\* C4 (as stated): once the first ingestion is joined, ingestForEquipment has
\* been invoked twice if it reported fewer than 5 chunks and the diagnosis
\* call succeeded, and once otherwise.  (Violated: a diagnosis whose
\* primaryDiagnosis is the empty string starts no targeted pass.)
C4_TargetedPassWheneverDiagnosed ==
    /\ calls.ingest <= 2
    /\ AfterFirstJoin =>
          calls.ingest =
              IF runs[1].result.chunksCreated < MinChunksForStore
                 /\ diagResponse.kind = "ok"
              THEN 2 ELSE 1

\* C4 (amended): ingestForEquipment is invoked at most twice per request;
\* once the first ingestion is joined it has been invoked exactly twice if the
\* first ingestion reported fewer than 5 chunks and the diagnosis has a
\* non-empty primaryDiagnosis, and exactly once otherwise (5 or more chunks,
\* or an empty primaryDiagnosis); before the join it has been invoked at most
\* once.
C4_TargetedPassExactlyOnce ==
    /\ calls.ingest <= 2
    /\ ~AfterFirstJoin => calls.ingest <= 1 /\ runs[2].pc = "idle"
    /\ AfterFirstJoin =>
          /\ calls.ingest =
                 IF runs[1].result.chunksCreated < MinChunksForStore
                    /\ diagnosis.primaryDiagnosis # ""
                 THEN 2 ELSE 1
          /\ (runs[2].pc # "idle") <=> (calls.ingest = 2)

\* C4 witness: a request that ran the targeted pass after a first ingestion
\* with fewer than 5 chunks and answered successfully
C4_TargetedPassRan ==
    /\ stage = "done"
    /\ calls.ingest = 2
    /\ runs[2].pc = "returned"
    /\ runs[1].result.success
    /\ runs[1].result.chunksCreated < MinChunksForStore

\* C5: after a targeted re-ingestion is joined, the current store is the
\* targeted run's store if the targeted run's chunksCreated is strictly
\* greater than the first run's, and the first run's store otherwise (ties
\* and failed targeted runs included); two stores of one request differ.
C5_StoreReplacedOnlyByLargerRun ==
    (AfterIngestion /\ runs[2].pc = "returned")
        => LET first == runs[1].result
               targeted == runs[2].result
           IN  /\ storeId =
                      IF targeted.chunksCreated > first.chunksCreated
                      THEN targeted.storeId ELSE first.storeId
               /\ (first.storeId # NoStore /\ targeted.storeId # NoStore)
                      => first.storeId # targeted.storeId
               /\ (targeted.storeId # NoStore /\ storeId = targeted.storeId)
                      <=> targeted.chunksCreated > first.chunksCreated

\* C5 witness: a targeted run with more chunks replaced the store of a first
\* run that had stored chunks of its own
C5_StoreReplaced ==
    /\ stage = "query"
    /\ runs[2].pc = "returned"
    /\ runs[1].result.storeId # NoStore
    /\ runs[2].result.chunksCreated > runs[1].result.chunksCreated
    /\ storeId = runs[2].result.storeId

\* every ingestion pass of the request ended with no candidate URL
AllPassesEmpty ==
    /\ AfterIngestion
    /\ \A r \in Runs :
          runs[r].pc = "idle"
          \/ runs[r].result.errors = <<"No relevant documents found">>

\* C6: an ingestion pass whose discovery finds no candidate returns
\* success=false, documentsCrawled=0 and no store id; when every pass of the
\* request ended that way, the handler holds no store id, issues no retrieval,
\* moves from the retrieval step to the supplement step with an empty context
\* and without failing, and there issues the web-search supplement call.
C6_NoCandidatesGoesToSupplement ==
    [][ /\ \A r \in Runs :
              (runs[r].pc = "search" /\ runs'[r].pc = "returned")
                  => /\ ~runs'[r].result.success
                     /\ runs'[r].result.documentsCrawled = 0
                     /\ runs'[r].result.chunksCreated = 0
                     /\ runs'[r].result.storeId = NoStore
                     /\ documentStore' = documentStore
        /\ AllPassesEmpty => storeId = NoStore /\ calls.retrieval = 0
        /\ (AllPassesEmpty /\ stage = "query")
              => /\ stage' = "fallback"
                 /\ technicalContext' = <<>>
                 /\ calls' = calls
                 /\ response' = NoResponse
        /\ (AllPassesEmpty /\ stage = "fallback")
              => calls'.supplement = calls.supplement + 1
      ]_vars

\* C6 witness: both passes found no candidate and the supplement call, issued
\* without any retrieval, delivered the context for the synthesis
C6_SupplementAfterNoCandidates ==
    /\ AllPassesEmpty
    /\ runs[1].pc = "returned"
    /\ runs[2].pc = "returned"
    /\ stage = "generate"
    /\ calls.retrieval = 0
    /\ calls.supplement = 1
    /\ technicalContext # <<>>

\* C7: queryDocuments returns at most K results and every returned result
\* has a similarity score of at least the configured minimum.  (Violated:
\* queryDocuments applies no threshold; a chunk orthogonal to the query is
\* returned with score 0.)
C7_RetrievedAboveThreshold ==
    /\ Len(retrieved) <= ContextTopK
    /\ \A i \in 1..Len(retrieved) : retrieved[i].score >= MinScore

\* the pieces of a context from position i on are all web-search text
OnlySearchTextFrom(ctx, i) ==
    \A j \in i..Len(ctx) : ctx[j].k = "websearch"

\* C8: the supplement call is issued exactly in the supplement step and exactly
\* when the retrieved context is shorter than 500 characters; a non-empty
\* retrieved context is then passed on unchanged, followed by the delimiter,
\* followed by the search summary; a context of 500 or more characters is
\* passed on unchanged; the synthesis step leaves the context as it is.
C8_SupplementAppendsBelowMinimum ==
    [][ /\ (calls'.supplement # calls.supplement)
              <=> (stage = "fallback" /\ ContextLen(technicalContext) < MinContextChars)
        /\ (calls'.supplement # calls.supplement)
              => calls'.supplement = calls.supplement + 1
        /\ (stage = "fallback" /\ ContextLen(technicalContext) >= MinContextChars)
              => stage' = "generate" /\ technicalContext' = technicalContext
        /\ (stage = "fallback" /\ stage' = "generate"
              /\ ContextLen(technicalContext) < MinContextChars
              /\ technicalContext # <<>>)
              => LET n == Len(technicalContext)
                 IN  /\ Len(technicalContext') > n
                     /\ SubSeq(technicalContext', 1, n) = technicalContext
                     /\ technicalContext'[n + 1] = Piece("delimiter", 38, <<>>)
                     /\ OnlySearchTextFrom(technicalContext', n + 2)
        /\ stage = "generate" => technicalContext' = technicalContext
      ]_vars

\* C8 witness: the synthesis step holds a retrieved context followed by the
\* delimiter and a search summary
C8_SupplementedContext ==
    /\ stage = "generate"
    /\ calls.supplement = 1
    /\ Len(technicalContext) >= 5
    /\ technicalContext[1].k = "header"
    /\ technicalContext[Len(technicalContext) - 1].k = "delimiter"
    /\ technicalContext[Len(technicalContext)].k = "websearch"

\* C10: every guide of a success response carries the diagnosis, a generated
\* timestamp, the diagnosis confidence as confidenceScore, and the common
\* disclaimers followed by those of the equipment category.  (Violated: the
\* handler never sets generatedAt.)
C10_GuideFullyAnnotated ==
    stage = "done"
        => /\ response.success /\ response.hasGuide
           /\ guide.diagnosis = <<diagnosis>>
           /\ guide.generatedAt # <<>>
           /\ guide.confidenceScore = <<diagnosis.confidence>>
           /\ guide.disclaimers =
                  CommonDisclaimers \o SpecificDisclaimers(equipment.type)

(***************************************************************************)
(* Properties of the part lookups                                          *)
(***************************************************************************)
\* the responses that make a part lookup fail
FailedLookups == {"network", "httpError", "unparsable"}

\* C9: a failed part lookup never fails the request; the part's whereToFind
\* becomes the default sources of the equipment category and every other part
\* keeps the result of its own lookup, in findParts of the route handler (for
\* every combination of responses to the lookups of the current parts) and in
\* ListenFixService.findPartsAvailability.  (Violated: findPartsAvailability
\* returns a part whose lookup threw as it is, with an empty whereToFind.)
C9_FailedLookupGetsDefaultSources ==
    /\ partResponses # <<>> => stage = "done" /\ response.success
    /\ \A i \in 1..Len(partResponses) :
          /\ partResponses[i] \in FailedLookups
                => guide.requiredParts[i].whereToFind =
                       getDefaultPartSources(equipment.type)
          /\ partResponses[i] = "sources"
                => guide.requiredParts[i].whereToFind = LiveSources
    /\ stage = "parts" =>
          \A resps \in [1..Len(guide.requiredParts) -> PartResponses] :
              \A i \in 1..Len(guide.requiredParts) :
                  LET found == findParts(guide.requiredParts, equipment.type,
                                         resps)[i]
                  IN  /\ resps[i] \in FailedLookups
                            => found.whereToFind =
                                   getDefaultSources(equipment.type)
                      /\ (resps[i] = "sources" /\ i <= PartsSearchLimit)
                            => found.whereToFind = LiveSources


(***************************************************************************)
(* Properties of the handler's concurrency                                 *)
(***************************************************************************)
\* a stage after the join of diagnosis and first ingestion has started
LaterStageStarted ==
    \/ stage \in {"targeted", "query", "fallback", "generate", "parts", "done"}
    \/ runs[2].pc # "idle"
    \/ calls.ingest > 1
    \/ calls.retrieval > 0
    \/ calls.supplement > 0
    \/ calls.synthesis > 0
    \/ calls.parts > 0

\* C11: while the diagnosis call is in flight the first ingestion pass has
\* already been started, and no later stage (targeted re-ingestion,
\* retrieval, supplement, synthesis, parts lookup) has started unless the
\* diagnosis has succeeded and the first ingestion has returned.
C11_LaterStagesWaitForBoth ==
    /\ stage = "diagnosing" => calls.ingest = 1 /\ runs[1].pc # "idle"
    /\ calls.diagnosis > 0 <=> calls.ingest > 0
    /\ LaterStageStarted => diagResponse.kind = "ok" /\ runs[1].pc = "returned"

\* C11 witness: the diagnosis has settled while the first ingestion, started
\* with it, is still crawling, and the handler waits
C11_DiagnosisSettledDuringCrawl ==
    /\ stage = "awaitCrawl"
    /\ runs[1].pc = "crawl"
    /\ runs[1].todo # {}
    /\ ~LaterStageStarted


(***************************************************************************)
(* Single operations of the crawler, called on their own                   *)
(***************************************************************************)
\* the URLs of the single calls
CallUrls == {Url(1), Url(2)}

\* pages at the two length limits of crawlUrl, besides the pages above
LimitPages ==
    Pages \cup
    { [kind |-> "html", htmlLen |-> 499, rawText |-> <<120, 129>>],
      [kind |-> "html", htmlLen |-> 500, rawText |-> <<120, 129>>],
      [kind |-> "html", htmlLen |-> 900, rawText |-> <<100, 98>>],
      [kind |-> "html", htmlLen |-> 900, rawText |-> <<100, 99>>],
      [kind |-> "html", htmlLen |-> 20000, rawText |-> <<9000, 8000>>] }

\* distilled texts of 40 and of 100 characters, besides the ones above
LimitDistillations ==
    Distillations \cup
    { [kind |-> "text", content |-> << <<40>> >>],
      [kind |-> "text", content |-> << <<100>> >>] }

\* the distillation is not called for a page that crawlUrl drops before
NotDistilled == [kind |-> "notCalled", content |-> <<>>]

\* crawlUrl gets as far as the distillation call for this page
ReachesDistillation(page) ==
    /\ page.kind = "html"
    /\ page.htmlLen >= MinHtmlLength
    /\ ParaLen(page.rawText) >= MinRawTextLength

\* what a crawlUrl call can meet: a page, and a distillation if it is called
CrawlInputs ==
    { <<page, dist>> \in LimitPages \X LimitDistillations :
          ReachesDistillation(page) }
    \cup { <<page, NotDistilled>> : page \in
              {p \in LimitPages : ~ReachesDistillation(p)} }

\* the other variables stay as they are
pipelineVars ==
    << stage, equipment, diagnosis, diagResponse, runs, documentStore, now,
       storeId, technicalContext, retrieved, guide, guideResponse,
       partResponses, response, calls, embedRequests, crawls >>

\* crawlUrl is called for one target
CallCrawlUrl ==
    /\ \E url \in CallUrls, input \in CrawlInputs :
          LET crawled == crawlUrl(crawlCache, url, input[1], input[2])
          IN  /\ lastCall' = [op |-> "crawlUrl", url |-> url,
                              page |-> input[1], dist |-> input[2],
                              cached |-> Has(crawlCache, url)]
              /\ lastResult' = crawled.doc
              /\ crawlCache' = crawled.cache
    /\ UNCHANGED << pipelineVars, firstChunked, ragChunking >>

\* chunkDocument is called for a document the crawler holds
CallChunkDocument ==
    /\ \E url \in DOMAIN crawlCache :
          LET doc == crawlCache[url]
              chunks == chunkDocument(doc)
          IN  /\ lastCall' = [op |-> "chunkDocument", doc |-> doc]
              /\ lastResult' = chunks
              /\ firstChunked' =
                     IF firstChunked = <<>>
                     THEN << [doc |-> doc, chunks |-> chunks,
                              cached |-> Cardinality(DOMAIN crawlCache)] >>
                     ELSE firstChunked
    /\ UNCHANGED << pipelineVars, crawlCache, ragChunking >>

\* vectors handed to cosineSimilarity: the empty vector of a chunk without
\* embedding, zero vectors, and non-zero vectors of one and two components
CallVectors ==
    { <<>>, <<0>>, <<0, 0>>, <<1>>, <<1, 0>>, <<0, 1>>, <<1, 1>>, <<2, 2>>,
      <<3, 4>>, <<-1, 2>> }

\* cosineSimilarity is called for a query embedding and a chunk embedding
CallCosineSimilarity ==
    /\ \E a \in CallVectors, b \in CallVectors :
          /\ lastCall' = [op |-> "cosineSimilarity", a |-> a, b |-> b]
          /\ lastResult' = cosineSimilarity(a, b)
    /\ UNCHANGED << pipelineVars, crawlCache, firstChunked, ragChunking >>

NextCalls ==
    \/ CallCrawlUrl
    \/ CallChunkDocument

SpecCalls == Init /\ [][NextCalls]_vars

(***************************************************************************)
(* Concurrent requests: two ingestForEquipment runs for the same equipment *)
(* on the shared crawler instance, interleaved at their awaits             *)
(***************************************************************************)
\* a request calls ingestForEquipment on the shared crawler
CallIngestForEquipment(r) ==
    /\ runs[r].pc = "idle"
    /\ runs' = [runs EXCEPT ![r] = StartedRun(FALSE)]
    /\ UNCHANGED << stage, equipment, diagnosis, diagResponse, documentStore,
                    crawlCache, now, storeId, technicalContext, guide,
                    guideResponse, response, calls, retrieved, partResponses >>
    /\ UNCHANGED << callVars, embedRequests >>

\* steps 4-5 of a run at the current value of Date.now()
StoreChunks(r) ==
    /\ runs[r].pc = "crawl"
    /\ runs[r].todo = {}
    /\ LET allChunks == ChunkAll(crawledDocs(runs[r]))
           id == generateStoreId(equipment, now)
       IN  \E batchOk \in [1..BatchCount(Len(allChunks)) -> BOOLEAN] :
              LET stored == embedAndStore(documentStore, allChunks, id, batchOk)
              IN  /\ documentStore' = stored.store
                  /\ embedRequests' =
                         IF Len(allChunks) = 0 THEN embedRequests
                         ELSE embedRequests
                                  \cup {generateEmbeddings("embedAndStore")}
                  /\ runs' = [runs EXCEPT ![r] =
                               ReturnedRun(@,
                                   IF stored.threw
                                   THEN FailedIngestion(
                                            "Failed to generate embeddings")
                                   ELSE IngestionResult(@, allChunks, id))]
    /\ UNCHANGED << stage, equipment, diagnosis, diagResponse, crawlCache,
                    now, storeId, technicalContext, guide, guideResponse,
                    response, calls, retrieved, partResponses >>
    /\ UNCHANGED callVars

\* a distilled text of eleven long paragraphs: more chunks than one
\* embedding sub-batch holds
LongContent == [i \in 1..(EmbedBatchSize + 1) |-> <<600>>]

\* step 3 for a long page: its crawlUrl call returns (and caches) a document
\* of more than ten chunks
CrawlLongPage(r) ==
    /\ runs[r].pc = "crawl"
    /\ \E i \in runs[r].todo :
          LET crawled == crawlUrl(crawlCache, runs[r].targets[i],
                                  [kind |-> "html", htmlLen |-> 900,
                                   rawText |-> <<250>>],
                                  [kind |-> "text", content |-> LongContent])
          IN  /\ crawlCache' = crawled.cache
              /\ runs' = [runs EXCEPT
                            ![r].todo = @ \ {i},
                            ![r].crawlResults[i] = crawled.doc]
    /\ UNCHANGED << stage, equipment, diagnosis, diagResponse, documentStore,
                    now, storeId, technicalContext, guide, guideResponse,
                    response, calls, retrieved, partResponses >>
    /\ UNCHANGED << callVars, embedRequests >>

\* a millisecond passes
Tick ==
    /\ now < MaxTicks
    /\ now' = now + 1
    /\ UNCHANGED << stage, equipment, diagnosis, diagResponse, runs,
                    documentStore, crawlCache, storeId, technicalContext,
                    guide, guideResponse, response, calls, retrieved,
                    partResponses >>
    /\ UNCHANGED << callVars, embedRequests >>


(***************************************************************************)
(* generateSearchQueries.  A query is the sequence of its words; a template *)
(* is a query some of whose words are placeholders; an absent or empty     *)
(* field is the empty sequence of words.                                   *)
(***************************************************************************)
SEARCH_TEMPLATES ==
    [ vehicles |->
        << <<"{year}", "{make}", "{model}", "{symptom}", "repair", "guide">>,
           <<"{make}", "{model}", "{diagnosis}", "how", "to", "fix">>,
           <<"{year}", "{make}", "{model}", "service", "manual", "{diagnosis}">>,
           <<"{make}", "{model}", "TSB", "{symptom}">>,
           <<"{make}", "{model}", "common", "problems", "{symptom}">> >>,
      appliances |->
        << <<"{make}", "{model}", "{symptom}", "repair">>,
           <<"{make}", "{model}", "troubleshooting", "guide">>,
           <<"{make}", "{model}", "service", "manual", "PDF">>,
           <<"{make}", "{model}", "error", "codes", "{symptom}">>,
           <<"how", "to", "fix", "{make}", "{model}", "{diagnosis}">> >>,
      hvac |->
        << <<"{make}", "{model}", "{symptom}", "troubleshooting">>,
           <<"{type}", "{symptom}", "repair", "guide">>,
           <<"{make}", "furnace", "error", "codes">>,
           <<"HVAC", "{diagnosis}", "fix", "DIY">> >>,
      general |->
        << <<"{type}", "{symptom}", "repair", "guide">>,
           <<"how", "to", "fix", "{type}", "{diagnosis}">>,
           <<"{make}", "{model}", "troubleshooting">>,
           <<"DIY", "{type}", "repair", "{symptom}">> >> ]

\* SEARCH_TEMPLATES[query.type] || SEARCH_TEMPLATES.general
TemplatesFor(type) ==
    IF type \in DOMAIN SEARCH_TEMPLATES THEN SEARCH_TEMPLATES[type]
    ELSE SEARCH_TEMPLATES.general

\* String.prototype.replace(placeholder, value): the first occurrence only
RECURSIVE ReplaceFirst(_, _, _)
ReplaceFirst(q, placeholder, value) ==
    IF q = <<>> THEN <<>>
    ELSE IF Head(q) = placeholder THEN value \o Tail(q)
    ELSE <<Head(q)>> \o ReplaceFirst(Tail(q), placeholder, value)

\* the chain of replace calls; joining the words by one blank each is the
\* replace(/\s+/g, ' ').trim() that ends it
FillTemplate(template, query) ==
    LET t1 == ReplaceFirst(template, "{type}",
                           IF query.type = "" THEN <<>> ELSE <<query.type>>)
        t2 == ReplaceFirst(t1, "{make}", query.make)
        t3 == ReplaceFirst(t2, "{model}", query.model)
        t4 == ReplaceFirst(t3, "{year}", query.year)
        t5 == ReplaceFirst(t4, "{symptom}", query.symptom)
    IN  ReplaceFirst(t5, "{diagnosis}", query.diagnosis)

\* q.length: the words and one blank between two words
QueryLen(q) ==
    IF q = <<>> THEN 0
    ELSE SumSeq([i \in 1..Len(q) |-> Len(q[i])]) + Len(q) - 1

\* [...new Set(queries)]: the first occurrence of every query, in order
RECURSIVE Dedupe(_)
Dedupe(queries) ==
    IF queries = <<>> THEN <<>>
    ELSE LET rest == Dedupe(SubSeq(queries, 1, Len(queries) - 1))
             q == queries[Len(queries)]
         IN  IF \E i \in 1..Len(rest) : rest[i] = q THEN rest
             ELSE Append(rest, q)

\* variant of generateSearchQueries that keeps queries of any length
generateSearchQueriesAnyLength(query) ==
    LET templates == TemplatesFor(query.type)
    IN  Dedupe([i \in 1..Len(templates) |-> FillTemplate(templates[i], query)])

generateSearchQueries(query) ==
    LET templates == TemplatesFor(query.type)
        filled == [i \in 1..Len(templates) |->
                      FillTemplate(templates[i], query)]
    IN  Dedupe(SelectSeq(filled, LAMBDA q : QueryLen(q) > 10))

\* EquipmentQuery objects: every category of the request body and the empty
\* type, each optional field absent or as in the route's example request
EquipmentQueries ==
    [ type : {"vehicle", "appliance", "hvac", "plumbing", "electrical",
              "other", ""},
      make : {<<>>, <<"Honda">>},
      model : {<<>>, <<"Accord">>},
      year : {<<>>, <<"2019">>},
      symptom : {<<>>, <<"clicking", "noise", "when", "turning", "right">>},
      diagnosis : {<<>>, <<"worn", "CV", "joint">>} ]

\* generateSearchQueries is called for an equipment query
CallGenerateSearchQueries ==
    /\ \E query \in EquipmentQueries :
          /\ lastCall' = [op |-> "generateSearchQueries", query |-> query]
          /\ lastResult' = generateSearchQueries(query)
    /\ UNCHANGED << pipelineVars, crawlCache, firstChunked, ragChunking >>

(***************************************************************************)
(* RAGService.chunkDocument (rag-service.ts).  A content is its length and *)
(* the indexes (from 0) of its '.' characters and of its blank lines.      *)
(***************************************************************************)
RagContents ==
    [ length : {0, 100, 200, 1000, 1500, 2400},
      dots : {{}, {80}, {700, 1400}},
      paragraphs : {{}, {60}, {900}} ]

\* String.prototype.lastIndexOf(pattern, end) over the indexes of a pattern
LastIndexOf(indexes, end) ==
    IF \E p \in indexes : p <= end
    THEN CHOOSE p \in indexes :
             p <= end /\ \A q \in indexes : q <= end => q <= p
    ELSE -1

\* the break point of the chunk that starts at start
ChunkEnd(content, start) ==
    LET end == Min(start + RagChunkSize, content.length)
        sentenceEnd == LastIndexOf(content.dots, end)
        paragraphEnd == LastIndexOf(content.paragraphs, end)
    IN  IF end < content.length
        THEN IF 2 * sentenceEnd > 2 * start + RagChunkSize
             THEN sentenceEnd + 1
             ELSE IF 2 * paragraphEnd > 2 * start + RagChunkSize
                  THEN paragraphEnd + 2
                  ELSE end
        ELSE end

\* chunkDocument is called: the loop variables are initialised
CallRagChunkDocument ==
    /\ ragChunking.pc = "idle"
    /\ \E content \in { c \in RagContents :
                            \A p \in c.dots \cup c.paragraphs : p + 1 < c.length } :
          ragChunking' = [ pc |-> "loop", content |-> content, start |-> 0,
                           chunkIndex |-> 0, chunks |-> <<>> ]
    /\ UNCHANGED << pipelineVars, crawlCache, lastCall, lastResult,
                    firstChunked >>

\* one iteration of the while loop
RagChunkIteration ==
    /\ ragChunking.pc = "loop"
    /\ ragChunking.start < ragChunking.content.length
    /\ ragChunking.chunkIndex < MaxRagChunks
    /\ LET end == ChunkEnd(ragChunking.content, ragChunking.start)
       IN  ragChunking' =
               [ragChunking EXCEPT
                   !.chunks = Append(@, [chunkIndex |-> ragChunking.chunkIndex,
                                         startChar |-> ragChunking.start,
                                         endChar |-> end]),
                   !.start = end - RagChunkOverlap,
                   !.chunkIndex = @ + 1]
    /\ UNCHANGED << pipelineVars, crawlCache, lastCall, lastResult,
                    firstChunked >>

\* the loop condition fails and the chunks are returned
RagChunkReturn ==
    /\ ragChunking.pc = "loop"
    /\ ~(ragChunking.start < ragChunking.content.length)
    /\ ragChunking' = [ragChunking EXCEPT !.pc = "returned"]
    /\ UNCHANGED << pipelineVars, crawlCache, lastCall, lastResult,
                    firstChunked >>

\* String.prototype.includes on sequences of words or of host labels: the
\* elements of value occur, in order and adjacent, in q
Appears(value, q) ==
    \E k \in 0..(Len(q) - Len(value)) :
        SubSeq(q, k + 1, k + Len(value)) = value

(***************************************************************************)
(* adjustScoreBySource.  A host name is the sequence of its labels, a      *)
(* weight is in hundredths, a relevance score in thousandths, and an        *)
(* adjusted score in units of 1/100000.                                    *)
(***************************************************************************)
TRUSTED_SOURCES ==
    [ vehicles |->
        << [domain |-> <<"repairpal", "com">>, weight |-> 90],
           [domain |-> <<"yourmechanic", "com">>, weight |-> 85],
           [domain |-> <<"carcomplaints", "com">>, weight |-> 80],
           [domain |-> <<"autoblog", "com">>, weight |-> 75],
           [domain |-> <<"nhtsa", "gov">>, weight |-> 95],
           [domain |-> <<"2carpros", "com">>, weight |-> 70],
           [domain |-> <<"justanswer", "com">>, weight |-> 60],
           [domain |-> <<"fixya", "com">>, weight |-> 60] >>,
      appliances |->
        << [domain |-> <<"repairclinic", "com">>, weight |-> 95],
           [domain |-> <<"partselect", "com">>, weight |-> 90],
           [domain |-> <<"applianceassistant", "com">>, weight |-> 85],
           [domain |-> <<"fixya", "com">>, weight |-> 70],
           [domain |-> <<"appliancepartspros", "com">>, weight |-> 85] >>,
      hvac |->
        << [domain |-> <<"hvac-talk", "com">>, weight |-> 80],
           [domain |-> <<"achrn", "com">>, weight |-> 85],
           [domain |-> <<"grainger", "com">>, weight |-> 75],
           [domain |-> <<"supplyhouse", "com">>, weight |-> 80] >>,
      general |->
        << [domain |-> <<"ifixit", "com">>, weight |-> 95],
           [domain |-> <<"familyhandyman", "com">>, weight |-> 85],
           [domain |-> <<"thisoldhouse", "com">>, weight |-> 80],
           [domain |-> <<"homedepot", "com">>, weight |-> 70],
           [domain |-> <<"lowes", "com">>, weight |-> 70] >> ]

\* [...(TRUSTED_SOURCES[equipmentType] || []), ...TRUSTED_SOURCES.general]
TrustedSourcesFor(equipmentType) ==
    (IF equipmentType \in DOMAIN TRUSTED_SOURCES
     THEN TRUSTED_SOURCES[equipmentType] ELSE <<>>)
    \o TRUSTED_SOURCES.general

\* relevanceScore * weight + 0.3 and relevanceScore * 0.7
TrustedScore(relevanceScore, weight) == relevanceScore * weight + 30000

UntrustedScore(relevanceScore) == relevanceScore * 70

adjustScoreBySource(target, equipmentType) ==
    LET sources == TrustedSourcesFor(equipmentType)
        found == {i \in 1..Len(sources) :
                     Appears(sources[i].domain, target.source)}
    IN  IF found # {}
        THEN LET first == CHOOSE i \in found : \A j \in found : i <= j
             IN  TrustedScore(target.relevanceScore, sources[first].weight)
        ELSE UntrustedScore(target.relevanceScore)

(***************************************************************************)
(* findRelevantUrls.  The searches of a batch settle in any order; a       *)
(* settlement is the index of its query and the outcome of its search.     *)
(***************************************************************************)
\* searchForUrls: the targets of the grounding chunks, [] for a thrown error
\* and for a non-OK response
searchForUrls(outcome) ==
    IF outcome.kind = "ok" THEN outcome.targets ELSE <<>>

\* variant of PromiseAll that lists the values in the order of settlement
PromiseAllAsSettled(settled) ==
    [k \in 1..Len(settled) |-> settled[k].value]

\* Promise.all: the values in the order of the promises, however they settle
PromiseAll(settled) ==
    [k \in 1..Len(settled) |->
        (CHOOSE s \in {settled[j] : j \in 1..Len(settled)} : s.index = k).value]

\* the loops over results and targets: the first target of every URL, with
\* its score adjusted
RECURSIVE CollectTargets(_, _, _)
CollectTargets(targets, allTargets, equipmentType) ==
    IF targets = <<>> THEN allTargets
    ELSE LET target == Head(targets)
             seen == \E i \in 1..Len(allTargets) :
                         allTargets[i].url = target.url
         IN  CollectTargets(
                 Tail(targets),
                 IF seen THEN allTargets
                 ELSE Append(allTargets,
                             [target EXCEPT !.relevanceScore =
                                 adjustScoreBySource(target, equipmentType)]),
                 equipmentType)

\* findRelevantUrls for the searches of one batch as they settled
findRelevantUrls(settled, equipmentType) ==
    LET results == PromiseAll(
                       [k \in 1..Len(settled) |->
                           [index |-> settled[k].index,
                            value |-> searchForUrls(settled[k].outcome)]])
        allTargets == CollectTargets(Flatten(results), <<>>, equipmentType)
        sorted == SortByScoreDesc(
                      [i \in 1..Len(allTargets) |->
                          [target |-> allTargets[i],
                           score |-> allTargets[i].relevanceScore]])
    IN  [i \in 1..Min(Len(sorted), RelevantUrlLimit) |-> sorted[i].target]

\* a candidate of the grounded search
Candidate(i, source, relevanceScore) ==
    [url |-> Url(i), source |-> source, relevanceScore |-> relevanceScore]

\* outcomes of one search: a thrown error, a non-OK response, or grounding
\* chunks for a trusted and an untrusted page; the same page can come with
\* two different signals
SearchOutcomes ==
    { [kind |-> "network", targets |-> <<>>],
      [kind |-> "httpError", targets |-> <<>>] }
    \cup
    { [kind |-> "ok", targets |-> t] :
        t \in { <<>>,
                << Candidate(1, <<"www", "ifixit", "com">>, 500) >>,
                << Candidate(1, <<"www", "ifixit", "com">>, 900) >>,
                << Candidate(2, <<"example", "org">>, 900) >>,
                << Candidate(1, <<"www", "ifixit", "com">>, 500),
                   Candidate(2, <<"example", "org">>, 900) >>,
                << Candidate(2, <<"example", "org">>, 900),
                   Candidate(1, <<"www", "ifixit", "com">>, 900) >> } }

\* one search that returns more candidates than findRelevantUrls keeps
ManyCandidates ==
    [kind |-> "ok",
     targets |-> [i \in 1..(RelevantUrlLimit + 1) |->
                     Candidate(i, <<"example", "org">>, 500 + 10 * i)]]

\* the searches of two queries, settled in either order, and the single
\* search with many candidates
SettledSearches ==
    { << [index |-> order[1], outcome |-> IF order[1] = 1 THEN o1 ELSE o2],
         [index |-> order[2], outcome |-> IF order[2] = 1 THEN o1 ELSE o2] >> :
        order \in {<<1, 2>>, <<2, 1>>}, o1 \in SearchOutcomes,
        o2 \in SearchOutcomes }
    \cup { << [index |-> 1, outcome |-> ManyCandidates] >> }

\* findRelevantUrls is called and its searches settle
CallFindRelevantUrls ==
    /\ \E settled \in SettledSearches :
          /\ lastCall' = [op |-> "findRelevantUrls", settled |-> settled,
                          equipmentType |-> "other"]
          /\ lastResult' = findRelevantUrls(settled, "other")
    /\ UNCHANGED << pipelineVars, crawlCache, firstChunked, ragChunking >>

\* candidates of the grounded search: host names of every table and an
\* unlisted one, with the default signal 0.5 and a confidence of 0.9
CrawlCandidates ==
    [ source : { <<"www", "repairpal", "com">>, <<"www", "fixya", "com">>,
                 <<"www", "repairclinic", "com">>, <<"hvac-talk", "com">>,
                 <<"www", "ifixit", "com">>, <<"example", "org">> },
      relevanceScore : {500, 900} ]

\* adjustScoreBySource is called for a candidate of a query of a category
CallAdjustScoreBySource ==
    /\ \E target \in CrawlCandidates,
          equipmentType \in {"vehicle", "appliance", "hvac", "plumbing",
                             "electrical", "other"} :
          /\ lastCall' = [op |-> "adjustScoreBySource", target |-> target,
                          equipmentType |-> equipmentType]
          /\ lastResult' = adjustScoreBySource(target, equipmentType)
    /\ UNCHANGED << pipelineVars, crawlCache, firstChunked, ragChunking >>

\* the searches of the two queries of a run: each fails or returns pages
RunSearches ==
    { << [index |-> 1, outcome |-> o1], [index |-> 2, outcome |-> o2] >> :
        o1 \in { [kind |-> "network", targets |-> <<>>],
                 [kind |-> "ok", targets |->
                     << Candidate(1, <<"www", "ifixit", "com">>, 500) >>] },
        o2 \in { [kind |-> "httpError", targets |-> <<>>],
                 [kind |-> "ok", targets |->
                     << Candidate(2, <<"example", "org">>, 900) >>],
                 [kind |-> "ok", targets |->
                     << Candidate(2, <<"example", "org">>, 900),
                        Candidate(1, <<"www", "ifixit", "com">>, 900) >>] } }

\* steps 1-2 of a run, search by search: the searches settle and
\* findRelevantUrls ranks what they returned; no target ends the run
SearchForTargets(r) ==
    /\ runs[r].pc = "search"
    /\ \E settled \in RunSearches :
          LET targets == findRelevantUrls(settled, equipment.type)
              found == [i \in 1..Len(targets) |-> targets[i].url]
          IN  /\ lastCall' = [op |-> "findRelevantUrls", settled |-> settled,
                              equipmentType |-> equipment.type]
              /\ lastResult' = targets
              /\ runs' = [runs EXCEPT ![r] =
                      IF Len(found) = 0
                      THEN ReturnedRun(@, FailedIngestion(
                                              "No relevant documents found"))
                      ELSE [@ EXCEPT
                               !.pc = "crawl",
                               !.targets = found,
                               !.todo = 1..Min(Len(found), CrawlLimit),
                               !.crawlResults =
                                   [i \in 1..Min(Len(found), CrawlLimit) |-> <<>>]]]
    /\ UNCHANGED << stage, equipment, diagnosis, diagResponse, documentStore,
                    crawlCache, now, storeId, technicalContext, guide,
                    guideResponse, response, calls, retrieved, partResponses,
                    firstChunked, ragChunking, embedRequests, crawls >>

NextRuns ==
    \/ \E r \in Runs : CallIngestForEquipment(r)
    \/ \E r \in Runs : SearchForTargets(r)
    \/ \E r \in Runs : CrawlUrl(r)
    \/ \E r \in Runs : CrawlLongPage(r)
    \/ \E r \in Runs : StoreChunks(r)
    \/ Tick

SpecRuns == Init /\ [][NextRuns]_vars

\* the request handler when a search finds no page or one page
NextLive ==
    \/ Start
    \/ DiagnosisReturns
    \/ AwaitCrawl
    \/ AwaitTargeted
    \/ QueryContext
    \/ Supplement
    \/ Generate
    \/ FindPartsAndRespond
    \/ \E r \in Runs : FindRelevantUrlsAmong(r, {<<>>, <<Url(1)>>})
    \/ \E r \in Runs : CrawlUrl(r)
    \/ \E r \in Runs : EmbedAndStore(r)

\* the handler when every external call eventually returns or fails and the
\* event loop runs every continuation that is ready
SpecLive == Init /\ [][NextLive]_vars /\ WF_vars(NextLive)

\* the operations that neither read nor change the crawler's collections
NextPure ==
    \/ CallCosineSimilarity
    \/ CallGenerateSearchQueries
    \/ CallAdjustScoreBySource
    \/ CallFindRelevantUrls

NextRag ==
    \/ CallRagChunkDocument
    \/ RagChunkIteration
    \/ RagChunkReturn

SpecRag == Init /\ [][NextRag]_vars

SpecPure == Init /\ [][NextPure]_vars

(***************************************************************************)
(* Properties of crawlUrl                                                  *)
(***************************************************************************)
\* the page of the last crawlUrl call was fetched with a 2xx status and a
\* text content type, but is too short: a body under 500 characters or an
\* extracted text under 200
FetchedTooShort ==
    /\ lastCall.op = "crawlUrl"
    /\ ~lastCall.cached
    /\ lastCall.page.kind = "html"
    /\ \/ lastCall.page.htmlLen < MinHtmlLength
       \/ ParaLen(lastCall.page.rawText) < MinRawTextLength

\* C12: a crawlUrl call that fetches a page whose body has fewer than 500
\* characters or whose extracted text has fewer than 200 returns no document
\* and caches none for that URL.
C12_ShortPageNeverCrawled ==
    FetchedTooShort
        => lastResult = <<>> /\ ~Has(crawlCache, lastCall.url)

\* C12 witness: a page of 900 characters with 199 characters of text was
\* fetched and dropped, while the other URL is cached
C12_ShortTextDropped ==
    /\ FetchedTooShort
    /\ lastCall.page.htmlLen >= MinHtmlLength
    /\ ParaLen(lastCall.page.rawText) = MinRawTextLength - 1
    /\ lastResult = <<>>
    /\ crawlCache # EmptyMap


ZeroNormCall ==
    /\ lastCall.op = "cosineSimilarity"
    /\ (Dot(lastCall.a, lastCall.a) = 0 \/ Dot(lastCall.b, lastCall.b) = 0)

SelfCall ==
    /\ lastCall.op = "cosineSimilarity"
    /\ lastCall.a = lastCall.b
    /\ Dot(lastCall.a, lastCall.a) # 0

Placeholders ==
    {"{type}", "{make}", "{model}", "{year}", "{symptom}", "{diagnosis}"}

\* the queries are the fillings of templates of the given list
QueriesFrom(templates, query, queries) ==
    \A i \in 1..Len(queries) :
        \E k \in 1..Len(templates) :
            queries[i] = FillTemplate(templates[k], query)

C16_VehicleTemplatesUsed ==
    ( /\ lastCall.op = "generateSearchQueries"
      /\ lastCall.query.type = "vehicle"
      /\ \A f \in {"make", "model", "year", "symptom"} :
             lastCall.query[f] # <<>> )
    => /\ QueriesFrom(SEARCH_TEMPLATES.vehicles, lastCall.query, lastResult)
       /\ Len(lastResult) >= 3
       /\ \A i, j \in 1..Len(lastResult) :
              lastResult[i] = lastResult[j] => i = j
       /\ \A f \in {"make", "model", "year", "symptom"} :
              \E i \in 1..Len(lastResult) :
                  Appears(lastCall.query[f], lastResult[i])


(***************************************************************************)
(* Properties of concurrent ingestion runs                                 *)
(***************************************************************************)
\* C17: whatever the interleaving of the runs, every store keeps its id and
\* its chunk list only grows: the chunks stored under an id remain, in
\* place, after every step.
C17_StoresOnlyGrow ==
    [][ \A id \in DOMAIN documentStore :
            /\ Has(documentStore', id)
            /\ Len(documentStore'[id]) >= Len(documentStore[id])
            /\ SubSeq(documentStore'[id], 1, Len(documentStore[id]))
                   = documentStore[id]
      ]_vars


(***************************************************************************)
(* Properties of RAGService.chunkDocument                                  *)
(***************************************************************************)
\* C18: in every iteration of the chunkDocument loop the start offset
\* strictly increases, and after the chunk that reaches the end of the
\* content the loop condition fails, so that the loop ends.
C18_ChunkLoopAdvances ==
    [][ ragChunking'.chunkIndex > ragChunking.chunkIndex
          => /\ ragChunking'.start > ragChunking.start
             /\ ragChunking'.chunks[Len(ragChunking'.chunks)].endChar
                    = ragChunking.content.length
                  => ~(ragChunking'.start < ragChunking'.content.length)
      ]_vars


(***************************************************************************)
(* Properties of the documents the crawler holds                           *)
(***************************************************************************)
\* C19: every document in the crawl cache, and every document crawlUrl
\* returns, has a content of at least the 100 characters of the check on the
\* distilled text; a shorter distilled text never becomes the content.
C19_CachedContentViable ==
    /\ \A url \in DOMAIN crawlCache :
           TextLen(crawlCache[url].content) >= MinCleanedLength
    /\ lastCall.op = "crawlUrl" /\ lastResult # <<>>
           => TextLen(lastResult[1].content) >= MinCleanedLength


\* C20: chunkDocument yields at least one chunk for every document the
\* crawler has returned.
C20_EveryDocumentYieldsChunk ==
    lastCall.op = "chunkDocument" => Len(lastResult) >= 1


(***************************************************************************)
(* Properties of the embedding requests                                    *)
(***************************************************************************)
\* C21: every embedding request of queryDocuments uses the retrieval-query
\* task type, every embedding request of embedAndStore the document task
\* type, and the two task types differ.
C21_QueryEmbeddedInQueryMode ==
    /\ generateQueryEmbedding("queryDocuments").taskType
           # generateEmbeddings("embedAndStore").taskType
    /\ \A req \in embedRequests :
           /\ req.caller = "queryDocuments"
                  => req.taskType = generateQueryEmbedding(req.caller).taskType
           /\ req.caller = "embedAndStore"
                  => req.taskType = generateEmbeddings(req.caller).taskType


(***************************************************************************)
(* Properties of adjustScoreBySource                                       *)
(***************************************************************************)
\* the trusted-source table of a category of the request, if it has one
CategoryTable(equipmentType) ==
    IF equipmentType = "vehicle" THEN TRUSTED_SOURCES.vehicles
    ELSE IF equipmentType = "appliance" THEN TRUSTED_SOURCES.appliances
    ELSE IF equipmentType = "hvac" THEN TRUSTED_SOURCES.hvac
    ELSE <<>>

\* C22: adjustScoreBySource returns weight * signal + 0.3 for a candidate
\* whose host matches a domain of the category's table or of the generic
\* table, and signal * 0.7 only for a candidate that matches neither.
C22_TrustedHostsBoosted ==
    lastCall.op = "adjustScoreBySource" =>
        LET target == lastCall.target
            listed == CategoryTable(lastCall.equipmentType)
                          \o TRUSTED_SOURCES.general
            matches == {i \in 1..Len(listed) :
                           Appears(listed[i].domain, target.source)}
        IN  IF matches # {}
            THEN \E i \in matches :
                     lastResult =
                         TrustedScore(target.relevanceScore, listed[i].weight)
            ELSE lastResult = UntrustedScore(target.relevanceScore)


(***************************************************************************)
(* Properties of findRelevantUrls                                          *)
(***************************************************************************)
\* the targets the searches returned, in the order of the queries
TargetsInQueryOrder(settled) ==
    Flatten([k \in 1..Len(settled) |->
                searchForUrls((CHOOSE s \in {settled[j] : j \in 1..Len(settled)} :
                                   s.index = k).outcome)])

\* the adjusted score of the first target with this URL
FirstOccurrenceScore(targets, url, equipmentType) ==
    LET first == CHOOSE i \in 1..Len(targets) :
                     /\ targets[i].url = url
                     /\ \A j \in 1..(i - 1) : targets[j].url # url
    IN  adjustScoreBySource(targets[first], equipmentType)

\* C29: findRelevantUrls returns at most 15 candidates with pairwise
\* distinct URLs in non-increasing order of final score; each is the first
\* occurrence of its URL in query order, whatever the order in which the
\* searches settled; no candidate left out scores higher than one returned,
\* and none is left out while there is room.
C29_TopCandidatesFirstOccurrence ==
    lastCall.op = "findRelevantUrls" =>
        LET targets == TargetsInQueryOrder(lastCall.settled)
            found == {targets[i].url : i \in 1..Len(targets)}
            kept == {lastResult[i].url : i \in 1..Len(lastResult)}
        IN  /\ Len(lastResult) <= RelevantUrlLimit
            /\ Len(lastResult) = Min(Cardinality(found), RelevantUrlLimit)
            /\ kept \subseteq found
            /\ \A i, j \in 1..Len(lastResult) :
                   /\ lastResult[i].url = lastResult[j].url => i = j
                   /\ i < j => lastResult[i].relevanceScore
                                   >= lastResult[j].relevanceScore
            /\ \A i \in 1..Len(lastResult) :
                   lastResult[i].relevanceScore =
                       FirstOccurrenceScore(targets, lastResult[i].url,
                                            lastCall.equipmentType)
            /\ \A url \in found \ kept :
                   \A i \in 1..Len(lastResult) :
                       FirstOccurrenceScore(targets, url,
                                            lastCall.equipmentType)
                           <= lastResult[i].relevanceScore

\* C29 witness: the second query settled first and returned the page of the
\* first query with another signal; the occurrence of the first query is kept
C29_LaterSettledFirstQueryWins ==
    /\ lastCall.op = "findRelevantUrls"
    /\ Len(lastCall.settled) = 2
    /\ lastCall.settled[1].index = 2
    /\ lastCall.settled[1].outcome.targets
           = << Candidate(1, <<"www", "ifixit", "com">>, 900) >>
    /\ lastCall.settled[2].outcome.targets
           = << Candidate(1, <<"www", "ifixit", "com">>, 500),
                Candidate(2, <<"example", "org">>, 900) >>
    /\ Len(lastResult) = 2
    /\ lastResult[1].url = Url(1)
    /\ lastResult[1].relevanceScore = TrustedScore(500, 95)


(***************************************************************************)
(* Properties of the failures inside an ingestion pass                     *)
(***************************************************************************)
\* C23: when the searches of a pass have settled, every candidate of every
\* search that returned is ranked, whatever happened to the other search;
\* and when a pass stores its chunks, the chunks of every document a crawl
\* returned are in the store, whatever happened to the other crawls.
C23_FailuresStayLocal ==
    [][ \A r \in Runs :
          /\ ( /\ runs[r].pc = "search"
               /\ runs'[r].pc # "search" )
             => \A k \in 1..Len(lastCall'.settled) :
                  LET targets == lastCall'.settled[k].outcome.targets
                  IN  \A i \in 1..Len(targets) :
                        /\ \E j \in 1..Len(lastResult') :
                               lastResult'[j].url = targets[i].url
                        /\ runs'[r].pc = "crawl"
                        /\ \E j \in 1..Len(runs'[r].targets) :
                               runs'[r].targets[j] = targets[i].url
          /\ ( /\ runs[r].pc = "crawl"
               /\ runs'[r].pc = "returned"
               /\ runs'[r].result.success )
             => \A i \in 1..Len(runs[r].crawlResults) :
                  runs[r].crawlResults[i] # <<>>
                  => LET chunks == chunkDocument(runs[r].crawlResults[i][1])
                         stored == documentStore'[runs'[r].result.storeId]
                     IN  \A c \in 1..Len(chunks) :
                           \E s \in 1..Len(stored) :
                               /\ stored[s].id = chunks[c].id
                               /\ stored[s].content = chunks[c].content
      ]_vars

\* C23 witness: the first search of the only pass failed, the second
\* returned two pages, the crawl of one of them returned nothing, and the
\* pass stored the chunks of the document of the other
C23_SiblingsSurvive ==
    \E r \in Runs :
        /\ \A other \in Runs \ {r} : runs[other].pc = "idle"
        /\ lastCall.op = "findRelevantUrls"
        /\ lastCall.settled[1].outcome.kind = "network"
        /\ runs[r].pc = "returned"
        /\ runs[r].result.success
        /\ runs[r].result.documentsFound = 2
        /\ runs[r].result.documentsCrawled = 1
        /\ runs[r].result.chunksCreated >= 2
        /\ Len(documentStore[runs[r].result.storeId])
               = runs[r].result.chunksCreated


C25_NoPassOutlivesRequest ==
    [][ (stage \in {"done", "failed"})
        => /\ \A r \in Runs : runs[r].pc \in {"idle", "returned"}
           /\ crawlCache' = crawlCache
           /\ documentStore' = documentStore
      ]_vars


(***************************************************************************)
(* Termination and stage order of a request                                *)
(***************************************************************************)
\* the position of each stage of the handler in the order of its code
StageRank ==
    [ s \in {"idle", "diagnosing", "awaitCrawl", "targeted", "query",
             "fallback", "generate", "parts", "done", "failed"} |->
        CASE s = "idle"       -> 0
          [] s = "diagnosing" -> 1
          [] s = "awaitCrawl" -> 2
          [] s = "targeted"   -> 3
          [] s = "query"      -> 4
          [] s = "fallback"   -> 5
          [] s = "generate"   -> 6
          [] s = "parts"      -> 7
          [] OTHER            -> 8 ]

\* C26: when every external call eventually returns or fails, every request
\* eventually reaches done or failed; it passes through the stages diagnosis
\* and ingestion, targeted re-ingestion, retrieval, web supplement,
\* synthesis, parts lookup in that order without re-entering one, and it
\* issues the diagnosis call and the synthesis call at most once each.
C26_TerminatesInStageOrder ==
    /\ <>(stage \in {"done", "failed"})
    /\ [][ stage' # stage => StageRank[stage'] > StageRank[stage] ]_vars
    /\ [][ /\ calls'.diagnosis # calls.diagnosis => stage = "idle"
           /\ calls'.ingest # calls.ingest => stage \in {"idle", "awaitCrawl"}
           /\ calls'.retrieval # calls.retrieval => stage = "query"
           /\ calls'.supplement # calls.supplement => stage = "fallback"
           /\ calls'.synthesis # calls.synthesis => stage = "generate"
           /\ calls'.parts # calls.parts => stage = "parts" ]_vars
    /\ [](calls.diagnosis <= 1 /\ calls.synthesis <= 1)

\* C26 witness: a request is done after both optional stages, the targeted
\* re-ingestion and the web supplement, have run
C26_DoneThroughEveryStage ==
    /\ stage = "done"
    /\ calls.diagnosis = 1
    /\ calls.ingest = 2
    /\ calls.retrieval = 1
    /\ calls.supplement = 1
    /\ calls.synthesis = 1


(***************************************************************************)
(* crawlUrl and the distillation outcome                                   *)
(***************************************************************************)
\* the distillation threw, answered with a non-OK status, or said NOT_RELEVANT
DistillationFailed(dist) ==
    dist.kind \in {"network", "httpError", "notRelevant"}

\* content is the one paragraph rawText cut after limit characters
IsPrefixOfLength(content, rawText, limit) ==
    /\ Len(content) = 1
    /\ ParaLen(content[1]) = Min(ParaLen(rawText), limit)
    /\ Len(content[1]) <= Len(rawText)
    /\ \A i \in 1..Len(content[1]) :
           IF i < Len(content[1]) THEN content[1][i] = rawText[i]
           ELSE content[1][i] <= rawText[i]

\* C27: for a fetched page whose body and extracted text pass the length
\* checks, crawlUrl returns a document whatever the distillation outcome;
\* when the distillation fails or signals NOT_RELEVANT the content is the
\* raw extracted text cut to 15000 characters.
C27_DistillationNeverDiscards ==
    (lastCall.op = "crawlUrl" /\ ~lastCall.cached
        /\ ReachesDistillation(lastCall.page))
    => /\ lastResult # <<>>
       /\ DistillationFailed(lastCall.dist)
          => IsPrefixOfLength(lastResult[1].content, lastCall.page.rawText,
                              RawTextLimit)

\* C27 witness: a page of more than 15000 characters of text was judged
\* NOT_RELEVANT and crawlUrl returned its first 15000 characters
C27_LongRawTextKept ==
    /\ lastCall.op = "crawlUrl"
    /\ ~lastCall.cached
    /\ lastCall.dist.kind = "notRelevant"
    /\ ParaLen(lastCall.page.rawText) > RawTextLimit
    /\ lastResult # <<>>
    /\ TextLen(lastResult[1].content) = RawTextLimit


(***************************************************************************)
(* Overlapping crawlUrl calls on one crawler (requests served at the same  *)
(* time share the crawler of getCrawler)                                   *)
(***************************************************************************)
\* number of calls and returns so far
CrawlEvents ==
    Cardinality({c \in CrawlCalls : crawls[c].pc # "idle"})
        + Cardinality({c \in CrawlCalls : crawls[c].pc = "returned"})

\* lines 1460-1464: a crawlUrl call starts; a cached document is returned
\* at once, otherwise the page fetch is issued
BeginCrawlUrl(c) ==
    /\ crawls[c].pc = "idle"
    /\ \A d \in CrawlCalls : d < c => crawls[d].pc # "idle"
    /\ \E url \in CallUrls :
          crawls' = [crawls EXCEPT ![c] =
                        IF Has(crawlCache, url)
                        THEN [ pc |-> "returned", url |-> url,
                               doc |-> <<crawlCache[url]>>, fetched |-> FALSE,
                               began |-> CrawlEvents + 1,
                               ended |-> CrawlEvents + 2 ]
                        ELSE [ pc |-> "fetching", url |-> url, doc |-> <<>>,
                               fetched |-> TRUE,
                               began |-> CrawlEvents + 1, ended |-> 0 ]]
    /\ UNCHANGED << stage, equipment, diagnosis, diagResponse, runs,
                    documentStore, crawlCache, now, storeId, technicalContext,
                    retrieved, guide, guideResponse, partResponses, response,
                    calls, lastCall, lastResult, firstChunked, ragChunking,
                    embedRequests >>

\* lines 1466-1547: the fetch and the distillation of a call have settled;
\* a document is put into the cache and returned
FinishCrawlUrl(c) ==
    /\ crawls[c].pc = "fetching"
    /\ \E page \in Pages, dist \in Distillations :
          LET doc == FetchAndExtract(crawls[c].url, page, dist)
          IN  /\ crawlCache' = IF doc = <<>> THEN crawlCache
                               ELSE Put(crawlCache, crawls[c].url, doc[1])
              /\ crawls' = [crawls EXCEPT ![c].pc = "returned",
                                          ![c].doc = doc,
                                          ![c].ended = CrawlEvents + 1]
    /\ UNCHANGED << stage, equipment, diagnosis, diagResponse, runs,
                    documentStore, now, storeId, technicalContext,
                    retrieved, guide, guideResponse, partResponses, response,
                    calls, lastCall, lastResult, firstChunked, ragChunking,
                    embedRequests >>

NextCrawls ==
    \/ \E c \in CrawlCalls : BeginCrawlUrl(c)
    \/ \E c \in CrawlCalls : FinishCrawlUrl(c)

SpecCrawls == Init /\ [][NextCrawls]_vars

\* C28: once crawlUrl has returned a document for a URL, every crawlUrl call
\* for that URL that starts later returns that same document and issues no
\* page fetch (and so no distillation call).
C28_LaterCallsReturnSameDocument ==
    \A first, later \in CrawlCalls :
        (/\ crawls[first].pc = "returned"
         /\ crawls[first].doc # <<>>
         /\ crawls[later].pc # "idle"
         /\ crawls[later].url = crawls[first].url
         /\ crawls[later].began > crawls[first].ended)
        => /\ crawls[later].pc = "returned"
           /\ ~crawls[later].fetched
           /\ crawls[later].doc = crawls[first].doc


(***************************************************************************)
(* findParts called on its own (route.ts)                                  *)
(***************************************************************************)
\* what a part-sources search would answer if it were issued: a thrown
\* error, a non-OK status, or live sources
CallPartResponses == {"network", "httpError", "sources"}

\* findParts is called once with a list of up to MaxPartsListed parts;
\* resps[i] is what a live search for part i would return
CallFindParts ==
    /\ lastCall.op # "findParts"
    /\ \E n \in 0..MaxPartsListed, equipmentType \in EquipmentTypes :
          \E resps \in [1..n -> CallPartResponses] :
              /\ lastCall' = [op |-> "findParts", parts |-> NewParts(n),
                              equipmentType |-> equipmentType,
                              resps |-> resps]
              /\ lastResult' = findParts(NewParts(n), equipmentType, resps)
    /\ UNCHANGED << pipelineVars, crawlCache, firstChunked, ragChunking >>

NextParts == CallFindParts

SpecParts == Init /\ [][NextParts]_vars

\* C30: findParts returns a list of the same length and part order as its
\* input; every part after the fifth carries exactly the default sources of
\* the equipment category, whatever a live search for it would have found,
\* so a live search is issued for the first five parts at most.
C30_LiveSearchForFirstFiveOnly ==
    lastCall.op = "findParts"
    => /\ Len(lastResult) = Len(lastCall.parts)
       /\ \A i \in 1..Len(lastCall.parts) :
              /\ lastResult[i].name = lastCall.parts[i].name
              /\ i > PartsSearchLimit
                 => lastResult[i].whereToFind
                        = getDefaultSources(lastCall.equipmentType)

\* C30 witness: of seven parts that would all be found live, the fifth
\* carries the live sources and the sixth and seventh carry the defaults
C30_SixthPartGetsDefaults ==
    /\ lastCall.op = "findParts"
    /\ Len(lastCall.parts) = PartsSearchLimit + 2
    /\ \A i \in 1..Len(lastCall.parts) : lastCall.resps[i] = "sources"
    /\ lastResult[PartsSearchLimit].whereToFind = LiveSources
    /\ lastResult[PartsSearchLimit + 1].whereToFind
           = getDefaultSources(lastCall.equipmentType)
    /\ lastResult[PartsSearchLimit + 2].whereToFind
           = getDefaultSources(lastCall.equipmentType)

=============================================================================
